---------------------------- MODULE Spec2Model ----------------------------
(***************************************************************************)
(* FormM scoring engine (src/scorer.js) driven by the answer generator of  *)
(* the test runner (dummy.js) and by the quiz page (main.js).              *)
(*                                                                         *)
(* Numbers.  The engine works on IEEE doubles; here every theta is an      *)
(* integer number of hundredths (3.0 is 300, the grid step 0.05 is 5), a   *)
(* composite theta is the exact quotient of a sum of hundredths by a facet *)
(* count, and a log-likelihood is an integer multiple of 1/LogScale.  The  *)
(* arithmetic is therefore exact decimal arithmetic: it agrees with the    *)
(* doubles except where binary rounding error decides the outcome, i.e.    *)
(* when two grid points have equal likelihood in exact arithmetic, or when *)
(* a composite theta sits exactly on a rounding half-point.                *)
(***************************************************************************)
EXTENDS Integers, Sequences, FiniteSets, TLC

VARIABLES
  itemParameters,      \* the item parameter table the scorer imports
  DICHOTOMY_CONFIG,    \* the configuration object of the scorer module
  facetToQuestionMap,  \* the Map the scorer module builds when it loads
  questionsData,       \* the question bank the runner has loaded
  answers,   \* the AnswerSet that is scored: question number -> choice
  calls,     \* the most recent calls of calculateResults, oldest first
  edits,     \* changes made to answers since it was last generated
  estimator, \* the call of calculateResults that is followed step by step
  quiz       \* the quiz page (main.js): its script state and what it shows

\* What is loaded once and read by every call.
loaded == <<itemParameters, DICHOTOMY_CONFIG, facetToQuestionMap, questionsData>>

vars == <<itemParameters, DICHOTOMY_CONFIG, facetToQuestionMap, questionsData,
          answers, calls, edits, estimator, quiz>>

(***************************************************************************)
(* Bounds of the exploration.                                              *)
(***************************************************************************)
PoolSize == 4   \* questions 1..PoolSize may be re-answered one by one
MaxEdits == 1   \* changes allowed to one generated AnswerSet
QuizPoolSize == 2  \* on the quiz page, the respondent makes up their mind
                   \* about the first QuizPoolSize questions and the last

(***************************************************************************)
(* The item parameter table as src/itemParameterMatrix.js exports it.      *)
(* Entry i+1 is the record of key "i"; a and b are in hundredths.          *)
(***************************************************************************)
itemParameterMatrix ==
  <<
  [dichotomy |-> "J-P", primaryFacet |-> "Planful", a |-> 250, b |-> 93],
  [dichotomy |-> "S-N", primaryFacet |-> "Conceptual", a |-> 250, b |-> 110],
  [dichotomy |-> "E-I", primaryFacet |-> "Enthusiastic", a |-> 210, b |-> -1],
  [dichotomy |-> "J-P", primaryFacet |-> "Planful", a |-> 210, b |-> -24],
  [dichotomy |-> "S-N", primaryFacet |-> "Imaginative", a |-> 188, b |-> -75],
  [dichotomy |-> "T-F", primaryFacet |-> "Logical", a |-> 250, b |-> 62],
  [dichotomy |-> "E-I", primaryFacet |-> "Gregarious", a |-> 250, b |-> -9],
  [dichotomy |-> "J-P", primaryFacet |-> "Spontaneous", a |-> 250, b |-> -22],
  [dichotomy |-> "S-N", primaryFacet |-> "Conceptual", a |-> 150, b |-> -84],
  [dichotomy |-> "E-I", primaryFacet |-> "Initiating", a |-> 200, b |-> -65],
  [dichotomy |-> "S-N", primaryFacet |-> "Imaginative", a |-> 250, b |-> -31],
  [dichotomy |-> "J-P", primaryFacet |-> "Scheduled", a |-> 188, b |-> 72],
  [dichotomy |-> "E-I", primaryFacet |-> "Contained", a |-> 300, b |-> 76],
  [dichotomy |-> "J-P", primaryFacet |-> "Systematic", a |-> 250, b |-> 67],
  [dichotomy |-> "T-F", primaryFacet |-> "Compassionate", a |-> 280, b |-> -80],
  [dichotomy |-> "E-I", primaryFacet |-> "Intimate", a |-> 250, b |-> 42],
  [dichotomy |-> "J-P", primaryFacet |-> "Pressure Prompted", a |-> 250, b |-> 13],
  [dichotomy |-> "S-N", primaryFacet |-> "Imaginative", a |-> 250, b |-> 88],
  [dichotomy |-> "E-I", primaryFacet |-> "Expressive", a |-> 300, b |-> 98],
  [dichotomy |-> "J-P", primaryFacet |-> "Methodical", a |-> 250, b |-> 44],
  [dichotomy |-> "T-F", primaryFacet |-> "Logical", a |-> 188, b |-> 51],
  [dichotomy |-> "S-N", primaryFacet |-> "Abstract", a |-> 200, b |-> -40],
  [dichotomy |-> "E-I", primaryFacet |-> "Initiating", a |-> 250, b |-> 52],
  [dichotomy |-> "J-P", primaryFacet |-> "Spontaneous", a |-> 250, b |-> 118],
  [dichotomy |-> "S-N", primaryFacet |-> "Traditional", a |-> 160, b |-> -158],
  [dichotomy |-> "E-I", primaryFacet |-> "Contained", a |-> 250, b |-> -61],
  [dichotomy |-> "S-N", primaryFacet |-> "Abstract", a |-> 188, b |-> 135],
  [dichotomy |-> "J-P", primaryFacet |-> "Scheduled", a |-> 188, b |-> 21],
  [dichotomy |-> "T-F", primaryFacet |-> "Tender", a |-> 250, b |-> -40],
  [dichotomy |-> "S-N", primaryFacet |-> "Conceptual", a |-> 250, b |-> 111],
  [dichotomy |-> "T-F", primaryFacet |-> "Logical", a |-> 188, b |-> 105],
  [dichotomy |-> "E-I", primaryFacet |-> "Enthusiastic", a |-> 250, b |-> -37],
  [dichotomy |-> "T-F", primaryFacet |-> "Tender", a |-> 200, b |-> -90],
  [dichotomy |-> "S-N", primaryFacet |-> "Conceptual", a |-> 280, b |-> -37],
  [dichotomy |-> "T-F", primaryFacet |-> "Logical", a |-> 188, b |-> -68],
  [dichotomy |-> "J-P", primaryFacet |-> "Systematic", a |-> 250, b |-> 51],
  [dichotomy |-> "T-F", primaryFacet |-> "Compassionate", a |-> 280, b |-> -84],
  [dichotomy |-> "E-I", primaryFacet |-> "Quiet", a |-> 150, b |-> -71],
  [dichotomy |-> "S-N", primaryFacet |-> "Theoretical", a |-> 250, b |-> -33],
  [dichotomy |-> "T-F", primaryFacet |-> "Compassionate", a |-> 200, b |-> 132],
  [dichotomy |-> "J-P", primaryFacet |-> "Systematic", a |-> 150, b |-> -90],
  [dichotomy |-> "E-I", primaryFacet |-> "Gregarious", a |-> 188, b |-> 31],
  [dichotomy |-> "T-F", primaryFacet |-> "Empathetic", a |-> 250, b |-> -73],
  [dichotomy |-> "S-N", primaryFacet |-> "Theoretical", a |-> 280, b |-> 110],
  [dichotomy |-> "J-P", primaryFacet |-> "Methodical", a |-> 200, b |-> 8],
  [dichotomy |-> "S-N", primaryFacet |-> "Conceptual", a |-> 250, b |-> 23],
  [dichotomy |-> "T-F", primaryFacet |-> "Tender", a |-> 250, b |-> -87],
  [dichotomy |-> "S-N", primaryFacet |-> "Imaginative", a |-> 250, b |-> 143],
  [dichotomy |-> "T-F", primaryFacet |-> "Tough", a |-> 250, b |-> 102],
  [dichotomy |-> "S-N", primaryFacet |-> "Original", a |-> 150, b |-> -17],
  [dichotomy |-> "T-F", primaryFacet |-> "Tender", a |-> 188, b |-> 102],
  [dichotomy |-> "S-N", primaryFacet |-> "Imaginative", a |-> 250, b |-> -67],
  [dichotomy |-> "T-F", primaryFacet |-> "Logical", a |-> 188, b |-> -60],
  [dichotomy |-> "S-N", primaryFacet |-> "Conceptual", a |-> 250, b |-> -57],
  [dichotomy |-> "J-P", primaryFacet |-> "Systematic", a |-> 250, b |-> -37],
  [dichotomy |-> "T-F", primaryFacet |-> "Compassionate", a |-> 250, b |-> -46],
  [dichotomy |-> "E-I", primaryFacet |-> "Gregarious", a |-> 188, b |-> -118],
  [dichotomy |-> "T-F", primaryFacet |-> "Logical", a |-> 200, b |-> -11],
  [dichotomy |-> "J-P", primaryFacet |-> "Open-ended", a |-> 280, b |-> -77],
  [dichotomy |-> "S-N", primaryFacet |-> "Abstract", a |-> 160, b |-> 60],
  [dichotomy |-> "T-F", primaryFacet |-> "Tough", a |-> 250, b |-> 114],
  [dichotomy |-> "E-I", primaryFacet |-> "Expressive", a |-> 141, b |-> 5],
  [dichotomy |-> "S-N", primaryFacet |-> "Original", a |-> 250, b |-> -5],
  [dichotomy |-> "J-P", primaryFacet |-> "Systematic", a |-> 280, b |-> 62],
  [dichotomy |-> "S-N", primaryFacet |-> "Imaginative", a |-> 280, b |-> 78],
  [dichotomy |-> "T-F", primaryFacet |-> "Accepting", a |-> 250, b |-> -5],
  [dichotomy |-> "S-N", primaryFacet |-> "Theoretical", a |-> 250, b |-> -70],
  [dichotomy |-> "E-I", primaryFacet |-> "Intimate", a |-> 250, b |-> 115],
  [dichotomy |-> "S-N", primaryFacet |-> "Imaginative", a |-> 210, b |-> -42],
  [dichotomy |-> "T-F", primaryFacet |-> "Compassionate", a |-> 280, b |-> -38],
  [dichotomy |-> "S-N", primaryFacet |-> "Original", a |-> 250, b |-> -150],
  [dichotomy |-> "T-F", primaryFacet |-> "Tender", a |-> 280, b |-> -167],
  [dichotomy |-> "S-N", primaryFacet |-> "Original", a |-> 280, b |-> 9],
  [dichotomy |-> "E-I", primaryFacet |-> "Active", a |-> 188, b |-> 55],
  [dichotomy |-> "T-F", primaryFacet |-> "Logical", a |-> 250, b |-> -31],
  [dichotomy |-> "J-P", primaryFacet |-> "Planful", a |-> 300, b |-> -120],
  [dichotomy |-> "J-P", primaryFacet |-> "Casual", a |-> 200, b |-> -98],
  [dichotomy |-> "J-P", primaryFacet |-> "Spontaneous", a |-> 160, b |-> 63],
  [dichotomy |-> "E-I", primaryFacet |-> "Gregarious", a |-> 250, b |-> 79],
  [dichotomy |-> "J-P", primaryFacet |-> "Planful", a |-> 150, b |-> 21],
  [dichotomy |-> "E-I", primaryFacet |-> "Expressive", a |-> 200, b |-> 24],
  [dichotomy |-> "S-N", primaryFacet |-> "Conceptual", a |-> 188, b |-> -66],
  [dichotomy |-> "E-I", primaryFacet |-> "Initiating", a |-> 280, b |-> -30],
  [dichotomy |-> "J-P", primaryFacet |-> "Spontaneous", a |-> 250, b |-> -105],
  [dichotomy |-> "E-I", primaryFacet |-> "Intimate", a |-> 188, b |-> -99],
  [dichotomy |-> "J-P", primaryFacet |-> "Methodical", a |-> 200, b |-> -101],
  [dichotomy |-> "T-F", primaryFacet |-> "Critical", a |-> 250, b |-> 105],
  [dichotomy |-> "J-P", primaryFacet |-> "Scheduled", a |-> 250, b |-> 43],
  [dichotomy |-> "T-F", primaryFacet |-> "Reasonable", a |-> 280, b |-> 32],
  [dichotomy |-> "J-P", primaryFacet |-> "Methodical", a |-> 250, b |-> 0],
  [dichotomy |-> "T-F", primaryFacet |-> "Accommodating", a |-> 200, b |-> 75],
  [dichotomy |-> "S-N", primaryFacet |-> "Original", a |-> 250, b |-> 61],
  [dichotomy |-> "J-P", primaryFacet |-> "Spontaneous", a |-> 250, b |-> 0]
  >>

NumItems == Len(itemParameters)

(***************************************************************************)
(* ln(probability(theta, a, b)) for every item and every grid point of the *)
(* theta loop, in units of 1/LogScale, rounded to the nearest unit: row    *)
(* i+1 is item i, column k+1 is theta = -3.00 + 0.05 * k.                  *)
(***************************************************************************)
LogScale == 10000000

LogProbabilityTable ==
  <<
  <<-98250541,-97000613,-95750694,-94500787,-93250892,-92001010,-90751145,-89501297,-88251470,-87001666,-85751887,-84502139,-83252424,-82002746,-80753112,-79503526,-78253995,-77004527,-75755130,-74505813,-73256586,-72007463,-70758456,-69509582,-68260857,-67012302,-65763938,-64515793,-63267894,-62020274,-60772970,-59526025,-58279485,-57033404,-55787843,-54542871,-53298565,-52055014,-50812316,-49570584,-48329945,-47090542,-45852536,-44616109,-43381468,-42148843,-40918495,-39690717,-38465838,-37244228,-36026302,-34812522,-33603406,-32399533,-31201546,-30010160,-28826165,-27650436,-26483934,-25327715,-24182931,-23050833,-21932775,-20830211,-19744691,-18677860,-17631442,-16607230,-15607067,-14632825,-13686376,-12769564,-11884167,-11031860,-10214182,-9432489,-8687926,-7981389,-7313501,-6684596,-6094704,-5543552,-5030574,-4554925,-4115508,-3711007,-3339916,-3000585,-2691252,-2410085,-2155213,-1924765,-1716887,-1529776,-1361692,-1210975,-1076053,-955455,-847805,-751832,-666365,-590328,-522743,-462717,-409443,-362193,-320308,-283198,-250334,-221242,-195498,-172723,-152582,-134773,-119031,-105118,-92823,-81961,-72365,-63889,-56403>>,
  <<-102500354,-101250401,-100000454,-98750514,-97500583,-96250661,-95000748,-93750848,-92500961,-91251089,-90001234,-88751398,-87501584,-86251795,-85002034,-83752305,-82502612,-81252960,-80003354,-78753801,-77504306,-76254880,-75005529,-73756265,-72507099,-71258044,-70009115,-68760328,-67511702,-66263259,-65015023,-63767022,-62519286,-61271851,-60024757,-58778049,-57531777,-56286001,-55040784,-53796202,-52552338,-51309286,-50067153,-48826061,-47586145,-46347559,-45110477,-43875096,-42641635,-41410343,-40181499,-38955419,-37732455,-36513002,-35297504,-34086457,-32880414,-31679991,-30485874,-29298822,-28119676,-26949362,-25788897,-24639395,-23502066,-22378223,-21269280,-20176751,-19102242,-18047446,-17014133,-16004127,-15019291,-14061501,-13132617,-12234446,-11368710,-10537007,-9740770,-8981233,-8259394,-7575990,-6931472,-6325990,-5759394,-5231233,-4740770,-4287007,-3868710,-3484446,-3132617,-2811501,-2519291,-2254127,-2014133,-1797446,-1602242,-1426751,-1269280,-1128223,-1002066,-889395,-788897,-699362,-619676,-548822,-485874,-429991,-380414,-336457,-297504,-263002,-232455,-205419,-181499,-160343,-141635,-125096,-110477,-97559,-86145>>,
  <<-62808735,-61760807,-60713108,-59665663,-58618500,-57571651,-56525149,-55479032,-54433344,-53388131,-52343446,-51299345,-50255894,-49213162,-48171229,-47130182,-46090116,-45051139,-44013367,-42976932,-41941977,-40908662,-39877161,-38847668,-37820396,-36795580,-35773478,-34754373,-33738578,-32726432,-31718311,-30714620,-29715807,-28722356,-27734792,-26753687,-25779656,-24813366,-23855528,-22906909,-21968321,-21040630,-20124749,-19221638,-18332299,-17457773,-16599130,-15757467,-14933893,-14129519,-13345447,-12582756,-11842487,-11125624,-10433081,-9765687,-9124167,-8509130,-7921057,-7360289,-6827023,-6321304,-5843025,-5391933,-4967628,-4569578,-4197125,-3849500,-3525840,-3225199,-2946570,-2688893,-2451081,-2232024,-2030612,-1845738,-1676316,-1521287,-1379624,-1250341,-1132498,-1025199,-927601,-838909,-758378,-685315,-619075,-559060,-504717,-455537,-411051,-370829,-334478,-301636,-271975,-245195,-221023,-199211,-179531,-161780,-145772,-131337,-118323,-106592,-96018,-86489,-77901,-70164,-63192,-56911,-51253,-46156,-41565,-37430,-33705,-30351,-27330,-24609,-22159,-19952,-17965>>,
  <<-57990351,-56943705,-55897430,-54851565,-53806156,-52761253,-51716911,-50673192,-49630164,-48587901,-47546489,-46506018,-45466592,-44428323,-43391337,-42355772,-41321780,-40289531,-39259211,-38231023,-37205195,-36181975,-35161636,-34144478,-33130829,-32121051,-31115537,-30114717,-29119060,-28129075,-27145315,-26168378,-25198909,-24237601,-23285199,-22342498,-21410341,-20489624,-19581287,-18686316,-17805738,-16940612,-16092024,-15261081,-14448893,-13656570,-12885199,-12135840,-11409500,-10707125,-10029578,-9377628,-8751933,-8153025,-7581304,-7037023,-6520289,-6031057,-5569130,-5134167,-4725687,-4343081,-3985624,-3652487,-3342756,-3055447,-2789519,-2543893,-2317467,-2109130,-1917773,-1742299,-1581638,-1434749,-1300630,-1178321,-1066909,-965528,-873366,-789656,-713687,-644792,-582356,-525807,-474620,-428311,-386432,-348578,-314373,-283478,-255580,-230396,-207668,-187161,-168662,-151977,-136932,-123367,-111139,-100116,-90182,-81229,-73162,-65894,-59345,-53446,-48131,-43344,-39032,-35149,-31651,-28500,-25663,-23108,-20807,-18735,-16869,-15189,-13676,-12314,-11087>>,
  <<-42444475,-41518602,-40594099,-39671095,-38749733,-37830168,-36912569,-35997120,-35084022,-34173492,-33265767,-32361103,-31459778,-30562094,-29668375,-28778971,-27894260,-27014649,-26140572,-25272495,-24410914,-23556360,-22709393,-21870608,-21040630,-20220117,-19409755,-18610259,-17822370,-17046848,-16284472,-15536033,-14802329,-14084157,-13382307,-12697553,-12030645,-11382298,-10753186,-10143931,-9555092,-8987161,-8440549,-7915587,-7412513,-6931472,-6472513,-6035587,-5620549,-5227161,-4855092,-4503931,-4173186,-3862298,-3570645,-3297553,-3042307,-2804157,-2582329,-2376033,-2184472,-2006848,-1842370,-1690259,-1549755,-1420117,-1300630,-1190608,-1089393,-996360,-910914,-832495,-760572,-694649,-634260,-578971,-528375,-482094,-439778,-401103,-365767,-333492,-304022,-277120,-252569,-230168,-209733,-191095,-174099,-158602,-144475,-131598,-119862,-109167,-99421,-90542,-82452,-75082,-68369,-62254,-56685,-51612,-46993,-42786,-38954,-35466,-32289,-29396,-26763,-24364,-22181,-20193,-18383,-16735,-15235,-13869,-12625,-11493,-10463,-9524,-8670>>,
  <<-90501174,-89251330,-88001507,-86751708,-85501935,-84252193,-83002485,-81752816,-80503191,-79253615,-78004097,-76754642,-75505260,-74255960,-73006753,-71757652,-70508670,-69259824,-68011132,-66762613,-65514291,-64266192,-63018346,-61770786,-60523551,-59276682,-58030230,-56784248,-55538799,-54293954,-53049792,-51806403,-50563889,-49322365,-48081961,-46842823,-45605118,-44369031,-43134773,-41902582,-40672723,-39445498,-38221242,-37000334,-35783198,-34570308,-33362193,-32159443,-30962717,-29772743,-28590328,-27416365,-26251832,-25097805,-23955455,-22826053,-21710975,-20611692,-19529776,-18466887,-17424765,-16405213,-15410085,-14441252,-13500585,-12589916,-11711007,-10865508,-10054925,-9280574,-8543552,-7844704,-7184596,-6563501,-5981389,-5437926,-4932489,-4464182,-4031860,-3634167,-3269564,-2936376,-2632825,-2357067,-2107230,-1881442,-1677860,-1494691,-1330211,-1182775,-1050833,-932931,-827715,-733934,-650436,-576165,-510160,-451546,-399533,-353406,-312522,-276302,-244228,-215838,-190717,-168495,-148843,-131468,-116109,-102536,-90542,-79945,-70584,-62316,-55014,-48565,-42871,-37843,-33404,-29485,-26025>>,
  <<-72756924,-71507846,-70258890,-69010073,-67761413,-66512932,-65264652,-64016602,-62768810,-61521312,-60274146,-59027357,-57780994,-56535113,-55289779,-54045064,-52801049,-51557827,-50315501,-49074190,-47834027,-46595162,-45357764,-44122026,-42888162,-41656414,-40427057,-39200398,-37976780,-36756591,-35540264,-34328285,-33121193,-31919594,-30724157,-29535628,-28354829,-27182671,-26020150,-24868362,-23728496,-22601846,-21489805,-20393868,-19315622,-18256744,-17218990,-16204174,-15214154,-14250806,-13315994,-12411539,-11539184,-10700553,-9897118,-9130153,-8400707,-7709570,-7057253,-6443967,-5869620,-5333822,-4835891,-4374880,-3949598,-3558651,-3200469,-2873353,-2575509,-2305086,-2060208,-1839007,-1639650,-1460354,-1299411,-1155195,-1026174,-910914,-808083,-716447,-634875,-562332,-497872,-440640,-389859,-344829,-304922,-269571,-238270,-210565,-186051,-164368,-145194,-128242,-113258,-100017,-88316,-77979,-68848,-60782,-53659,-47369,-41815,-36910,-32580,-28758,-25383,-22404,-19774,-17452,-15403,-13594,-11998,-10589,-9345,-8248,-7279,-6424,-5669,-5003,-4415>>,
  <<-69509582,-68260857,-67012302,-65763938,-64515793,-63267894,-62020274,-60772970,-59526025,-58279485,-57033404,-55787843,-54542871,-53298565,-52055014,-50812316,-49570584,-48329945,-47090542,-45852536,-44616109,-43381468,-42148843,-40918495,-39690717,-38465838,-37244228,-36026302,-34812522,-33603406,-32399533,-31201546,-30010160,-28826165,-27650436,-26483934,-25327715,-24182931,-23050833,-21932775,-20830211,-19744691,-18677860,-17631442,-16607230,-15607067,-14632825,-13686376,-12769564,-11884167,-11031860,-10214182,-9432489,-8687926,-7981389,-7313501,-6684596,-6094704,-5543552,-5030574,-4554925,-4115508,-3711007,-3339916,-3000585,-2691252,-2410085,-2155213,-1924765,-1716887,-1529776,-1361692,-1210975,-1076053,-955455,-847805,-751832,-666365,-590328,-522743,-462717,-409443,-362193,-320308,-283198,-250334,-221242,-195498,-172723,-152582,-134773,-119031,-105118,-92823,-81961,-72365,-63889,-56403,-49792,-43954,-38799,-34248,-30230,-26682,-23551,-20786,-18346,-16192,-14291,-12613,-11132,-9824,-8670,-7652,-6753,-5960,-5260,-4642,-4097,-3615,-3191>>,
  <<-32784164,-32063474,-31344971,-30628810,-29915157,-29204187,-28496088,-27791056,-27089301,-26391044,-25696518,-25005971,-24319661,-23637860,-22960853,-22288940,-21622430,-20961650,-20306935,-19658635,-19017109,-18382730,-17755876,-17136936,-16526307,-15924389,-15331585,-14748303,-14174946,-13611917,-13059609,-12518412,-11988699,-11470832,-10965153,-10471985,-9991627,-9524353,-9070404,-8629994,-8203300,-7790465,-7391593,-7006753,-6635971,-6279236,-5936496,-5607661,-5292604,-4991161,-4703133,-4428289,-4166367,-3917079,-3680111,-3455128,-3241776,-3039685,-2848473,-2667747,-2497107,-2336151,-2184472,-2041665,-1907328,-1781063,-1662479,-1551191,-1446825,-1349017,-1257412,-1171670,-1091460,-1016465,-946384,-880924,-819808,-762772,-709565,-659948,-613695,-570592,-530437,-493038,-458217,-425802,-395636,-367567,-341456,-317171,-294587,-273590,-254070,-235927,-219065,-203396,-188837,-175311,-162746,-151075,-140235,-130168,-120819,-112138,-104077,-96593,-89645,-83194,-77206,-71647,-66488,-61698,-57253,-53127,-49298,-45744,-42445,-39384,-36544,-33908,-31462>>,
  <<-47090542,-46100017,-45110477,-44122026,-43134773,-42148843,-41164368,-40181499,-39200398,-38221242,-37244228,-36269571,-35297504,-34328285,-33362193,-32399533,-31440640,-30485874,-29535628,-28590328,-27650436,-26716447,-25788897,-24868362,-23955455,-23050833,-22155195,-21269280,-20393868,-19529776,-18677860,-17839007,-17014133,-16204174,-15410085,-14632825,-13873353,-13132617,-12411539,-11711007,-11031860,-10374880,-9740770,-9130153,-8543552,-7981389,-7443967,-6931472,-6443967,-5981389,-5543552,-5130153,-4740770,-4374880,-4031860,-3711007,-3411539,-3132617,-2873353,-2632825,-2410085,-2204174,-2014133,-1839007,-1677860,-1529776,-1393868,-1269280,-1155195,-1050833,-955455,-868362,-788897,-716447,-650436,-590328,-535628,-485874,-440640,-399533,-362193,-328285,-297504,-269571,-244228,-221242,-200398,-181499,-164368,-148843,-134773,-122026,-110477,-100017,-90542,-81961,-74190,-67153,-60782,-55014,-49792,-45064,-40784,-36910,-33404,-30230,-27357,-24757,-22404,-20274,-18346,-16602,-15023,-13594,-12302,-11132,-10073,-9115,-8248,-7463,-6753>>,
  <<-67261998,-66013594,-64765403,-63517452,-62269774,-61022404,-59775383,-58528758,-57282580,-56036910,-54791815,-53547369,-52303659,-51060782,-49818848,-48577979,-47338316,-46100017,-44863258,-43628242,-42395194,-41164368,-39936051,-38710565,-37488270,-36269571,-35054922,-33844829,-32639859,-31440640,-30247872,-29062332,-27884875,-26716447,-25558083,-24410914,-23276174,-22155195,-21049411,-19960354,-18889650,-17839007,-16810208,-15805086,-14825509,-13873353,-12950469,-12058651,-11199598,-10374880,-9585891,-8833822,-8119620,-7443967,-6807253,-6209570,-5650707,-5130153,-4647118,-4200553,-3789184,-3411539,-3065994,-2750806,-2464154,-2204174,-1968990,-1756744,-1565622,-1393868,-1239805,-1101846,-978496,-868362,-770150,-682671,-604829,-535628,-474157,-419594,-371193,-328285,-290264,-256591,-226780,-200398,-177057,-156414,-138162,-122026,-107764,-95162,-84027,-74190,-65501,-57827,-51049,-45064,-39779,-35113,-30994,-27357,-24146,-21312,-18810,-16602,-14652,-12932,-11413,-10073,-8890,-7846,-6924,-6111,-5393,-4759,-4200,-3707,-3271,-2887,-2548>>,
  <<-69945173,-69006077,-68067069,-67128160,-66189357,-65250673,-64312118,-63373705,-62435448,-61497363,-60559466,-59621776,-58684313,-57747099,-56810159,-55873520,-54937210,-54001262,-53065712,-52130599,-51195964,-50261854,-49328322,-48395421,-47463215,-46531770,-45601159,-44671464,-43742773,-42815181,-41888794,-40963728,-40040108,-39118071,-38197768,-37279361,-36363030,-35448966,-34537381,-33628504,-32722584,-31819889,-30920711,-30025365,-29134191,-28247556,-27365855,-26489510,-25618975,-24754734,-23897304,-23047232,-22205101,-21371523,-20547143,-19732636,-18928707,-18136085,-17355523,-16587794,-15833685,-15093991,-14369511,-13661039,-12969355,-12295220,-11639365,-11002482,-10385213,-9788145,-9211796,-8656612,-8122957,-7611104,-7121239,-6653447,-6207720,-5783951,-5381937,-5001386,-4641916,-4303068,-3984309,-3685040,-3404607,-3142312,-2897415,-2669152,-2456738,-2259379,-2076276,-1906634,-1749669,-1604612,-1470714,-1347251,-1233524,-1128863,-1032630,-944219,-863054,-788594,-720329,-657780,-600501,-548075,-500111,-456250,-416156,-379519,-346052,-315489,-287587,-262121,-238883,-217682,-198345,-180710,-164630,-149970,-136606>>,
  <<-112800126,-111300147,-109800170,-108300198,-106800230,-105300267,-103800310,-102300361,-100800419,-99300487,-97800566,-96300657,-94800764,-93300887,-91801031,-90301198,-88801391,-87301616,-85801878,-84302182,-82802535,-81302945,-79803422,-78303975,-76804619,-75305366,-73806234,-72307243,-70808414,-69309775,-67811356,-66313193,-64815326,-63317804,-61820683,-60324026,-58827909,-57332418,-55837655,-54343735,-52850795,-51358991,-49868505,-48379548,-46892362,-45407230,-43924476,-42444475,-40967661,-39494532,-38025661,-36561707,-35103424,-33651674,-32207442,-30771847,-29346158,-27931807,-26530404,-25143750,-23773846,-22422900,-21093332,-19787765,-18509016,-17260072,-16044056,-14864178,-13723677,-12625744,-11573441,-10569603,-9616749,-8716984,-7871917,-7082597,-6349461,-5672321,-5050370,-4482215,-3965940,-3499183,-3079221,-2703072,-2367587,-2069536,-1805689,-1572883,-1368071,-1188365,-1031062,-893659,-773865,-669595,-578971,-500306,-432100,-373020,-321888,-277668,-239450,-206438,-177937,-153341,-132122,-113823,-98046,-84446,-72726,-62628,-53928,-46433,-39978,-34419,-29632,-25510,-21960,-18904,-16273,-14008,-12058>>,
  <<-91751036,-90501174,-89251330,-88001507,-86751708,-85501935,-84252193,-83002485,-81752816,-80503191,-79253615,-78004097,-76754642,-75505260,-74255960,-73006753,-71757652,-70508670,-69259824,-68011132,-66762613,-65514291,-64266192,-63018346,-61770786,-60523551,-59276682,-58030230,-56784248,-55538799,-54293954,-53049792,-51806403,-50563889,-49322365,-48081961,-46842823,-45605118,-44369031,-43134773,-41902582,-40672723,-39445498,-38221242,-37000334,-35783198,-34570308,-33362193,-32159443,-30962717,-29772743,-28590328,-27416365,-26251832,-25097805,-23955455,-22826053,-21710975,-20611692,-19529776,-18466887,-17424765,-16405213,-15410085,-14441252,-13500585,-12589916,-11711007,-10865508,-10054925,-9280574,-8543552,-7844704,-7184596,-6563501,-5981389,-5437926,-4932489,-4464182,-4031860,-3634167,-3269564,-2936376,-2632825,-2357067,-2107230,-1881442,-1677860,-1494691,-1330211,-1182775,-1050833,-932931,-827715,-733934,-650436,-576165,-510160,-451546,-399533,-353406,-312522,-276302,-244228,-215838,-190717,-168495,-148843,-131468,-116109,-102536,-90542,-79945,-70584,-62316,-55014,-48565,-42871,-37843,-33404,-29485>>,
  <<-61621100,-60224267,-58827909,-57432096,-56036910,-54642445,-53248808,-51856122,-50464529,-49074190,-47685291,-46298046,-44912697,-43529523,-42148843,-40771019,-39396468,-38025661,-36659137,-35297504,-33941456,-32591775,-31249344,-29915157,-28590328,-27276103,-25973865,-24685149,-23411644,-22155195,-20917810,-19701648,-18509016,-17342346,-16204174,-15097107,-14023779,-12986800,-11988699,-11031860,-10118454,-9250370,-8429153,-7655952,-6931472,-6255952,-5629153,-5050370,-4518454,-4031860,-3588699,-3186800,-2823779,-2497107,-2204174,-1942346,-1709016,-1501648,-1317810,-1155195,-1011644,-885149,-773865,-676103,-590328,-515157,-449344,-391775,-341456,-297504,-259137,-225661,-196468,-171019,-148843,-129523,-112697,-98046,-85291,-74190,-64529,-56122,-48808,-42445,-36910,-32096,-27909,-24267,-21100,-18346,-15951,-13869,-12058,-10484,-9115,-7924,-6889,-5990,-5207,-4527,-3936,-3422,-2975,-2586,-2248,-1955,-1699,-1477,-1284,-1117,-971,-844,-734,-638,-555,-482,-419,-364,-317,-275,-239>>,
  <<-85501935,-84252193,-83002485,-81752816,-80503191,-79253615,-78004097,-76754642,-75505260,-74255960,-73006753,-71757652,-70508670,-69259824,-68011132,-66762613,-65514291,-64266192,-63018346,-61770786,-60523551,-59276682,-58030230,-56784248,-55538799,-54293954,-53049792,-51806403,-50563889,-49322365,-48081961,-46842823,-45605118,-44369031,-43134773,-41902582,-40672723,-39445498,-38221242,-37000334,-35783198,-34570308,-33362193,-32159443,-30962717,-29772743,-28590328,-27416365,-26251832,-25097805,-23955455,-22826053,-21710975,-20611692,-19529776,-18466887,-17424765,-16405213,-15410085,-14441252,-13500585,-12589916,-11711007,-10865508,-10054925,-9280574,-8543552,-7844704,-7184596,-6563501,-5981389,-5437926,-4932489,-4464182,-4031860,-3634167,-3269564,-2936376,-2632825,-2357067,-2107230,-1881442,-1677860,-1494691,-1330211,-1182775,-1050833,-932931,-827715,-733934,-650436,-576165,-510160,-451546,-399533,-353406,-312522,-276302,-244228,-215838,-190717,-168495,-148843,-131468,-116109,-102536,-90542,-79945,-70584,-62316,-55014,-48565,-42871,-37843,-33404,-29485,-26025,-22970,-20274,-17894,-15793>>,
  <<-78253995,-77004527,-75755130,-74505813,-73256586,-72007463,-70758456,-69509582,-68260857,-67012302,-65763938,-64515793,-63267894,-62020274,-60772970,-59526025,-58279485,-57033404,-55787843,-54542871,-53298565,-52055014,-50812316,-49570584,-48329945,-47090542,-45852536,-44616109,-43381468,-42148843,-40918495,-39690717,-38465838,-37244228,-36026302,-34812522,-33603406,-32399533,-31201546,-30010160,-28826165,-27650436,-26483934,-25327715,-24182931,-23050833,-21932775,-20830211,-19744691,-18677860,-17631442,-16607230,-15607067,-14632825,-13686376,-12769564,-11884167,-11031860,-10214182,-9432489,-8687926,-7981389,-7313501,-6684596,-6094704,-5543552,-5030574,-4554925,-4115508,-3711007,-3339916,-3000585,-2691252,-2410085,-2155213,-1924765,-1716887,-1529776,-1361692,-1210975,-1076053,-955455,-847805,-751832,-666365,-590328,-522743,-462717,-409443,-362193,-320308,-283198,-250334,-221242,-195498,-172723,-152582,-134773,-119031,-105118,-92823,-81961,-72365,-63889,-56403,-49792,-43954,-38799,-34248,-30230,-26682,-23551,-20786,-18346,-16192,-14291,-12613,-11132,-9824,-8670,-7652>>,
  <<-97000613,-95750694,-94500787,-93250892,-92001010,-90751145,-89501297,-88251470,-87001666,-85751887,-84502139,-83252424,-82002746,-80753112,-79503526,-78253995,-77004527,-75755130,-74505813,-73256586,-72007463,-70758456,-69509582,-68260857,-67012302,-65763938,-64515793,-63267894,-62020274,-60772970,-59526025,-58279485,-57033404,-55787843,-54542871,-53298565,-52055014,-50812316,-49570584,-48329945,-47090542,-45852536,-44616109,-43381468,-42148843,-40918495,-39690717,-38465838,-37244228,-36026302,-34812522,-33603406,-32399533,-31201546,-30010160,-28826165,-27650436,-26483934,-25327715,-24182931,-23050833,-21932775,-20830211,-19744691,-18677860,-17631442,-16607230,-15607067,-14632825,-13686376,-12769564,-11884167,-11031860,-10214182,-9432489,-8687926,-7981389,-7313501,-6684596,-6094704,-5543552,-5030574,-4554925,-4115508,-3711007,-3339916,-3000585,-2691252,-2410085,-2155213,-1924765,-1716887,-1529776,-1361692,-1210975,-1076053,-955455,-847805,-751832,-666365,-590328,-522743,-462717,-409443,-362193,-320308,-283198,-250334,-221242,-195498,-172723,-152582,-134773,-119031,-105118,-92823,-81961,-72365,-63889,-56403,-49792>>,
  <<-119400065,-117900076,-116400088,-114900102,-113400119,-111900138,-110400160,-108900186,-107400217,-105900252,-104400292,-102900340,-101400395,-99900459,-98400533,-96900619,-95400719,-93900836,-92400971,-90901128,-89401310,-87901522,-86401769,-84902055,-83402387,-81902774,-80403223,-78903744,-77404350,-75905054,-74405871,-72906821,-71407924,-69909206,-68410695,-66912425,-65414434,-63916768,-62419480,-60922628,-59426286,-57930533,-56435466,-54941193,-53447844,-51955565,-50464529,-48974933,-47487007,-46001017,-44517269,-43036119,-41557974,-40083307,-38612659,-37146653,-35686004,-34231530,-32784164,-31344971,-29915157,-28496088,-27089301,-25696518,-24319661,-22960853,-21622430,-20306935,-19017109,-17755876,-16526307,-15331585,-14174946,-13059609,-11988699,-10965153,-9991627,-9070404,-8203300,-7391593,-6635971,-5936496,-5292604,-4703133,-4166367,-3680111,-3241776,-2848473,-2497107,-2184472,-1907328,-1662479,-1446825,-1257412,-1091460,-946384,-819808,-709565,-613695,-530437,-458217,-395636,-341456,-294587,-254070,-219065,-188837,-162746,-140235,-120819,-104077,-89645,-77206,-66488,-57253,-49298,-42445,-36544,-31462,-27085,-23317>>,
  <<-86001841,-84752086,-83502364,-82252678,-81003035,-79753439,-78503897,-77254415,-76005003,-74755669,-73506424,-72257279,-71008248,-69759345,-68510589,-67261998,-66013594,-64765403,-63517452,-62269774,-61022404,-59775383,-58528758,-57282580,-56036910,-54791815,-53547369,-52303659,-51060782,-49818848,-48577979,-47338316,-46100017,-44863258,-43628242,-42395194,-41164368,-39936051,-38710565,-37488270,-36269571,-35054922,-33844829,-32639859,-31440640,-30247872,-29062332,-27884875,-26716447,-25558083,-24410914,-23276174,-22155195,-21049411,-19960354,-18889650,-17839007,-16810208,-15805086,-14825509,-13873353,-12950469,-12058651,-11199598,-10374880,-9585891,-8833822,-8119620,-7443967,-6807253,-6209570,-5650707,-5130153,-4647118,-4200553,-3789184,-3411539,-3065994,-2750806,-2464154,-2204174,-1968990,-1756744,-1565622,-1393868,-1239805,-1101846,-978496,-868362,-770150,-682671,-604829,-535628,-474157,-419594,-371193,-328285,-290264,-256591,-226780,-200398,-177057,-156414,-138162,-122026,-107764,-95162,-84027,-74190,-65501,-57827,-51049,-45064,-39779,-35113,-30994,-27357,-24146,-21312,-18810,-16602>>,
  <<-66001611,-65062951,-64124424,-63186041,-62247817,-61309768,-60371911,-59434265,-58496850,-57559689,-56622806,-55686230,-54749990,-53814119,-52878653,-51943632,-51009098,-50075100,-49141689,-48208922,-47276863,-46345579,-45415144,-44485643,-43557163,-42629803,-41703671,-40778884,-39855569,-38933867,-38013929,-37095923,-36180029,-35266444,-34355382,-33447076,-32541778,-31639762,-30741324,-29846785,-28956489,-28070808,-27190143,-26314923,-25445607,-24582686,-23726682,-22878152,-22037681,-21205890,-20383430,-19570981,-18769254,-17978983,-17200926,-16435857,-15684567,-14947853,-14226511,-13521334,-12833100,-12162564,-11510449,-10877439,-10264166,-9671202,-9099053,-8548149,-8018835,-7511368,-7025914,-6562539,-6121215,-5701816,-5304121,-4927819,-4572513,-4237728,-3922916,-3627468,-3350720,-3091964,-2850456,-2625427,-2416088,-2221643,-2041296,-1874251,-1719729,-1576963,-1445210,-1323749,-1211887,-1108962,-1014341,-927424,-847642,-774461,-707377,-645917,-589641,-538137,-491022,-447940,-408562,-372581,-339715,-309703,-282306,-257301,-234485,-213671,-194686,-177374,-161588,-147197,-134079,-122123,-111227,-101298,-92252>>,
  <<-52055014,-51060782,-50067153,-49074190,-48081961,-47090542,-46100017,-45110477,-44122026,-43134773,-42148843,-41164368,-40181499,-39200398,-38221242,-37244228,-36269571,-35297504,-34328285,-33362193,-32399533,-31440640,-30485874,-29535628,-28590328,-27650436,-26716447,-25788897,-24868362,-23955455,-23050833,-22155195,-21269280,-20393868,-19529776,-18677860,-17839007,-17014133,-16204174,-15410085,-14632825,-13873353,-13132617,-12411539,-11711007,-11031860,-10374880,-9740770,-9130153,-8543552,-7981389,-7443967,-6931472,-6443967,-5981389,-5543552,-5130153,-4740770,-4374880,-4031860,-3711007,-3411539,-3132617,-2873353,-2632825,-2410085,-2204174,-2014133,-1839007,-1677860,-1529776,-1393868,-1269280,-1155195,-1050833,-955455,-868362,-788897,-716447,-650436,-590328,-535628,-485874,-440640,-399533,-362193,-328285,-297504,-269571,-244228,-221242,-200398,-181499,-164368,-148843,-134773,-122026,-110477,-100017,-90542,-81961,-74190,-67153,-60782,-55014,-49792,-45064,-40784,-36910,-33404,-30230,-27357,-24757,-22404,-20274,-18346,-16602,-15023,-13594,-12302,-11132>>,
  <<-88001507,-86751708,-85501935,-84252193,-83002485,-81752816,-80503191,-79253615,-78004097,-76754642,-75505260,-74255960,-73006753,-71757652,-70508670,-69259824,-68011132,-66762613,-65514291,-64266192,-63018346,-61770786,-60523551,-59276682,-58030230,-56784248,-55538799,-54293954,-53049792,-51806403,-50563889,-49322365,-48081961,-46842823,-45605118,-44369031,-43134773,-41902582,-40672723,-39445498,-38221242,-37000334,-35783198,-34570308,-33362193,-32159443,-30962717,-29772743,-28590328,-27416365,-26251832,-25097805,-23955455,-22826053,-21710975,-20611692,-19529776,-18466887,-17424765,-16405213,-15410085,-14441252,-13500585,-12589916,-11711007,-10865508,-10054925,-9280574,-8543552,-7844704,-7184596,-6563501,-5981389,-5437926,-4932489,-4464182,-4031860,-3634167,-3269564,-2936376,-2632825,-2357067,-2107230,-1881442,-1677860,-1494691,-1330211,-1182775,-1050833,-932931,-827715,-733934,-650436,-576165,-510160,-451546,-399533,-353406,-312522,-276302,-244228,-215838,-190717,-168495,-148843,-131468,-116109,-102536,-90542,-79945,-70584,-62316,-55014,-48565,-42871,-37843,-33404,-29485,-26025,-22970,-20274>>,
  <<-104500289,-103250328,-102000372,-100750421,-99500477,-98250541,-97000613,-95750694,-94500787,-93250892,-92001010,-90751145,-89501297,-88251470,-87001666,-85751887,-84502139,-83252424,-82002746,-80753112,-79503526,-78253995,-77004527,-75755130,-74505813,-73256586,-72007463,-70758456,-69509582,-68260857,-67012302,-65763938,-64515793,-63267894,-62020274,-60772970,-59526025,-58279485,-57033404,-55787843,-54542871,-53298565,-52055014,-50812316,-49570584,-48329945,-47090542,-45852536,-44616109,-43381468,-42148843,-40918495,-39690717,-38465838,-37244228,-36026302,-34812522,-33603406,-32399533,-31201546,-30010160,-28826165,-27650436,-26483934,-25327715,-24182931,-23050833,-21932775,-20830211,-19744691,-18677860,-17631442,-16607230,-15607067,-14632825,-13686376,-12769564,-11884167,-11031860,-10214182,-9432489,-8687926,-7981389,-7313501,-6684596,-6094704,-5543552,-5030574,-4554925,-4115508,-3711007,-3339916,-3000585,-2691252,-2410085,-2155213,-1924765,-1716887,-1529776,-1361692,-1210975,-1076053,-955455,-847805,-751832,-666365,-590328,-522743,-462717,-409443,-362193,-320308,-283198,-250334,-221242,-195498,-172723,-152582,-134773,-119031,-105118>>,
  <<-23701296,-22978842,-22262173,-21551668,-20847722,-20150745,-19461163,-18779418,-18105964,-17441266,-16785800,-16140050,-15504506,-14879658,-14266000,-13664018,-13074195,-12497000,-11932889,-11382298,-10845640,-10323300,-9815634,-9322960,-8845559,-8383668,-7937481,-7507144,-7092752,-6694352,-6311938,-5945455,-5594795,-5259805,-4940281,-4635978,-4346605,-4071838,-3811314,-3564644,-3331407,-3111164,-2903457,-2707813,-2523748,-2350775,-2188400,-2036132,-1893482,-1759969,-1635119,-1518467,-1409562,-1307967,-1213258,-1125026,-1042882,-966449,-895371,-829305,-767930,-710936,-658035,-608951,-563426,-521217,-482094,-445842,-412261,-381161,-352366,-325711,-301042,-278216,-257098,-237564,-219498,-202793,-187346,-173066,-159866,-147665,-136389,-125969,-116340,-107443,-99224,-91630,-84615,-78134,-72149,-66620,-61514,-56798,-52442,-48420,-44706,-41276,-38108,-35184,-32483,-29989,-27687,-25561,-23598,-21786,-20112,-18567,-17141,-15824,-14609,-13486,-12450,-11493,-10610,-9795,-9042,-8347,-7706,-7113,-6567>>,
  <<-59775383,-58528758,-57282580,-56036910,-54791815,-53547369,-52303659,-51060782,-49818848,-48577979,-47338316,-46100017,-44863258,-43628242,-42395194,-41164368,-39936051,-38710565,-37488270,-36269571,-35054922,-33844829,-32639859,-31440640,-30247872,-29062332,-27884875,-26716447,-25558083,-24410914,-23276174,-22155195,-21049411,-19960354,-18889650,-17839007,-16810208,-15805086,-14825509,-13873353,-12950469,-12058651,-11199598,-10374880,-9585891,-8833822,-8119620,-7443967,-6807253,-6209570,-5650707,-5130153,-4647118,-4200553,-3789184,-3411539,-3065994,-2750806,-2464154,-2204174,-1968990,-1756744,-1565622,-1393868,-1239805,-1101846,-978496,-868362,-770150,-682671,-604829,-535628,-474157,-419594,-371193,-328285,-290264,-256591,-226780,-200398,-177057,-156414,-138162,-122026,-107764,-95162,-84027,-74190,-65501,-57827,-51049,-45064,-39779,-35113,-30994,-27357,-24146,-21312,-18810,-16602,-14652,-12932,-11413,-10073,-8890,-7846,-6924,-6111,-5393,-4759,-4200,-3707,-3271,-2887,-2548,-2248,-1984,-1751,-1545,-1364,-1204>>,
  <<-81782807,-80843084,-79903388,-78963722,-78024088,-77084491,-76144934,-75205420,-74265954,-73326540,-72387185,-71447893,-70508670,-69569524,-68630463,-67691493,-66752625,-65813869,-64875235,-63936735,-62998383,-62060193,-61122181,-60184364,-59246763,-58309396,-57372289,-56435466,-55498954,-54562786,-53626993,-52691612,-51756685,-50822254,-49888369,-48955082,-48022452,-47090542,-46159421,-45229167,-44299862,-43371598,-42444475,-41518602,-40594099,-39671095,-38749733,-37830168,-36912569,-35997120,-35084022,-34173492,-33265767,-32361103,-31459778,-30562094,-29668375,-28778971,-27894260,-27014649,-26140572,-25272495,-24410914,-23556360,-22709393,-21870608,-21040630,-20220117,-19409755,-18610259,-17822370,-17046848,-16284472,-15536033,-14802329,-14084157,-13382307,-12697553,-12030645,-11382298,-10753186,-10143931,-9555092,-8987161,-8440549,-7915587,-7412513,-6931472,-6472513,-6035587,-5620549,-5227161,-4855092,-4503931,-4173186,-3862298,-3570645,-3297553,-3042307,-2804157,-2582329,-2376033,-2184472,-2006848,-1842370,-1690259,-1549755,-1420117,-1300630,-1190608,-1089393,-996360,-910914,-832495,-760572,-694649,-634260,-578971,-528375,-482094,-439778>>,
  <<-60371911,-59434265,-58496850,-57559689,-56622806,-55686230,-54749990,-53814119,-52878653,-51943632,-51009098,-50075100,-49141689,-48208922,-47276863,-46345579,-45415144,-44485643,-43557163,-42629803,-41703671,-40778884,-39855569,-38933867,-38013929,-37095923,-36180029,-35266444,-34355382,-33447076,-32541778,-31639762,-30741324,-29846785,-28956489,-28070808,-27190143,-26314923,-25445607,-24582686,-23726682,-22878152,-22037681,-21205890,-20383430,-19570981,-18769254,-17978983,-17200926,-16435857,-15684567,-14947853,-14226511,-13521334,-12833100,-12162564,-11510449,-10877439,-10264166,-9671202,-9099053,-8548149,-8018835,-7511368,-7025914,-6562539,-6121215,-5701816,-5304121,-4927819,-4572513,-4237728,-3922916,-3627468,-3350720,-3091964,-2850456,-2625427,-2416088,-2221643,-2041296,-1874251,-1719729,-1576963,-1445210,-1323749,-1211887,-1108962,-1014341,-927424,-847642,-774461,-707377,-645917,-589641,-538137,-491022,-447940,-408562,-372581,-339715,-309703,-282306,-257301,-234485,-213671,-194686,-177374,-161588,-147197,-134079,-122123,-111227,-101298,-92252,-84010,-76502,-69662,-63432,-57757,-52589>>,
  <<-65015023,-63767022,-62519286,-61271851,-60024757,-58778049,-57531777,-56286001,-55040784,-53796202,-52552338,-51309286,-50067153,-48826061,-47586145,-46347559,-45110477,-43875096,-42641635,-41410343,-40181499,-38955419,-37732455,-36513002,-35297504,-34086457,-32880414,-31679991,-30485874,-29298822,-28119676,-26949362,-25788897,-24639395,-23502066,-22378223,-21269280,-20176751,-19102242,-18047446,-17014133,-16004127,-15019291,-14061501,-13132617,-12234446,-11368710,-10537007,-9740770,-8981233,-8259394,-7575990,-6931472,-6325990,-5759394,-5231233,-4740770,-4287007,-3868710,-3484446,-3132617,-2811501,-2519291,-2254127,-2014133,-1797446,-1602242,-1426751,-1269280,-1128223,-1002066,-889395,-788897,-699362,-619676,-548822,-485874,-429991,-380414,-336457,-297504,-263002,-232455,-205419,-181499,-160343,-141635,-125096,-110477,-97559,-86145,-76061,-67153,-59286,-52338,-46202,-40784,-36001,-31777,-28049,-24757,-21851,-19286,-17022,-15023,-13259,-11702,-10328,-9115,-8044,-7099,-6265,-5529,-4880,-4306,-3801,-3354,-2960,-2612,-2305,-2034>>,
  <<-102750345,-101500391,-100250443,-99000502,-97750569,-96500644,-95250730,-94000827,-92750937,-91501062,-90251204,-89001364,-87751545,-86501751,-85251984,-84002248,-82752548,-81502887,-80253271,-79003707,-77754200,-76504759,-75255393,-74006111,-72756924,-71507846,-70258890,-69010073,-67761413,-66512932,-65264652,-64016602,-62768810,-61521312,-60274146,-59027357,-57780994,-56535113,-55289779,-54045064,-52801049,-51557827,-50315501,-49074190,-47834027,-46595162,-45357764,-44122026,-42888162,-41656414,-40427057,-39200398,-37976780,-36756591,-35540264,-34328285,-33121193,-31919594,-30724157,-29535628,-28354829,-27182671,-26020150,-24868362,-23728496,-22601846,-21489805,-20393868,-19315622,-18256744,-17218990,-16204174,-15214154,-14250806,-13315994,-12411539,-11539184,-10700553,-9897118,-9130153,-8400707,-7709570,-7057253,-6443967,-5869620,-5333822,-4835891,-4374880,-3949598,-3558651,-3200469,-2873353,-2575509,-2305086,-2060208,-1839007,-1639650,-1460354,-1299411,-1155195,-1026174,-910914,-808083,-716447,-634875,-562332,-497872,-440640,-389859,-344829,-304922,-269571,-238270,-210565,-186051,-164368,-145194,-128242,-113258,-100017,-88316>>,
  <<-76144934,-75205420,-74265954,-73326540,-72387185,-71447893,-70508670,-69569524,-68630463,-67691493,-66752625,-65813869,-64875235,-63936735,-62998383,-62060193,-61122181,-60184364,-59246763,-58309396,-57372289,-56435466,-55498954,-54562786,-53626993,-52691612,-51756685,-50822254,-49888369,-48955082,-48022452,-47090542,-46159421,-45229167,-44299862,-43371598,-42444475,-41518602,-40594099,-39671095,-38749733,-37830168,-36912569,-35997120,-35084022,-34173492,-33265767,-32361103,-31459778,-30562094,-29668375,-28778971,-27894260,-27014649,-26140572,-25272495,-24410914,-23556360,-22709393,-21870608,-21040630,-20220117,-19409755,-18610259,-17822370,-17046848,-16284472,-15536033,-14802329,-14084157,-13382307,-12697553,-12030645,-11382298,-10753186,-10143931,-9555092,-8987161,-8440549,-7915587,-7412513,-6931472,-6472513,-6035587,-5620549,-5227161,-4855092,-4503931,-4173186,-3862298,-3570645,-3297553,-3042307,-2804157,-2582329,-2376033,-2184472,-2006848,-1842370,-1690259,-1549755,-1420117,-1300630,-1190608,-1089393,-996360,-910914,-832495,-760572,-694649,-634260,-578971,-528375,-482094,-439778,-401103,-365767,-333492,-304022,-277120,-252569>>,
  <<-65763938,-64515793,-63267894,-62020274,-60772970,-59526025,-58279485,-57033404,-55787843,-54542871,-53298565,-52055014,-50812316,-49570584,-48329945,-47090542,-45852536,-44616109,-43381468,-42148843,-40918495,-39690717,-38465838,-37244228,-36026302,-34812522,-33603406,-32399533,-31201546,-30010160,-28826165,-27650436,-26483934,-25327715,-24182931,-23050833,-21932775,-20830211,-19744691,-18677860,-17631442,-16607230,-15607067,-14632825,-13686376,-12769564,-11884167,-11031860,-10214182,-9432489,-8687926,-7981389,-7313501,-6684596,-6094704,-5543552,-5030574,-4554925,-4115508,-3711007,-3339916,-3000585,-2691252,-2410085,-2155213,-1924765,-1716887,-1529776,-1361692,-1210975,-1076053,-955455,-847805,-751832,-666365,-590328,-522743,-462717,-409443,-362193,-320308,-283198,-250334,-221242,-195498,-172723,-152582,-134773,-119031,-105118,-92823,-81961,-72365,-63889,-56403,-49792,-43954,-38799,-34248,-30230,-26682,-23551,-20786,-18346,-16192,-14291,-12613,-11132,-9824,-8670,-7652,-6753,-5960,-5260,-4642,-4097,-3615,-3191,-2816,-2485,-2193>>,
  <<-42148843,-41164368,-40181499,-39200398,-38221242,-37244228,-36269571,-35297504,-34328285,-33362193,-32399533,-31440640,-30485874,-29535628,-28590328,-27650436,-26716447,-25788897,-24868362,-23955455,-23050833,-22155195,-21269280,-20393868,-19529776,-18677860,-17839007,-17014133,-16204174,-15410085,-14632825,-13873353,-13132617,-12411539,-11711007,-11031860,-10374880,-9740770,-9130153,-8543552,-7981389,-7443967,-6931472,-6443967,-5981389,-5543552,-5130153,-4740770,-4374880,-4031860,-3711007,-3411539,-3132617,-2873353,-2632825,-2410085,-2204174,-2014133,-1839007,-1677860,-1529776,-1393868,-1269280,-1155195,-1050833,-955455,-868362,-788897,-716447,-650436,-590328,-535628,-485874,-440640,-399533,-362193,-328285,-297504,-269571,-244228,-221242,-200398,-181499,-164368,-148843,-134773,-122026,-110477,-100017,-90542,-81961,-74190,-67153,-60782,-55014,-49792,-45064,-40784,-36910,-33404,-30230,-27357,-24757,-22404,-20274,-18346,-16602,-15023,-13594,-12302,-11132,-10073,-9115,-8248,-7463,-6753,-6111,-5529,-5003,-4527,-4097>>,
  <<-73646335,-72247286,-70848381,-69449639,-68051087,-66652752,-65254667,-63856869,-62459402,-61062314,-59665663,-58269514,-56873942,-55479032,-54084885,-52691612,-51299345,-49908233,-48518446,-47130182,-45743664,-44359149,-42976932,-41597348,-40220781,-38847668,-37478505,-36113860,-34754373,-33400772,-32053880,-30714620,-29384036,-28063291,-26753687,-25456665,-24173822,-22906909,-21657836,-20428672,-19221638,-18039092,-16883512,-15757467,-14663580,-13604481,-12582756,-11600885,-10661173,-9765687,-8916185,-8114061,-7360289,-6655391,-5999415,-5391933,-4832058,-4318477,-3849500,-3423117,-3037065,-2688893,-2376033,-2095857,-1845738,-1623092,-1425422,-1250341,-1095603,-959106,-838909,-733227,-640435,-559060,-487774,-425385,-370829,-323157,-281528,-245195,-213502,-185867,-161780,-140793,-122512,-106592,-92731,-80665,-70164,-61025,-53074,-46156,-40138,-34904,-30351,-26391,-22947,-19952,-17348,-15083,-13114,-11402,-9913,-8618,-7493,-6514,-5664,-4924,-4281,-3722,-3235,-2813,-2445,-2126,-1848,-1607,-1397,-1214,-1056,-918,-798>>,
  <<-43742773,-42815181,-41888794,-40963728,-40040108,-39118071,-38197768,-37279361,-36363030,-35448966,-34537381,-33628504,-32722584,-31819889,-30920711,-30025365,-29134191,-28247556,-27365855,-26489510,-25618975,-24754734,-23897304,-23047232,-22205101,-21371523,-20547143,-19732636,-18928707,-18136085,-17355523,-16587794,-15833685,-15093991,-14369511,-13661039,-12969355,-12295220,-11639365,-11002482,-10385213,-9788145,-9211796,-8656612,-8122957,-7611104,-7121239,-6653447,-6207720,-5783951,-5381937,-5001386,-4641916,-4303068,-3984309,-3685040,-3404607,-3142312,-2897415,-2669152,-2456738,-2259379,-2076276,-1906634,-1749669,-1604612,-1470714,-1347251,-1233524,-1128863,-1032630,-944219,-863054,-788594,-720329,-657780,-600501,-548075,-500111,-456250,-416156,-379519,-346052,-315489,-287587,-262121,-238883,-217682,-198345,-180710,-164630,-149970,-136606,-124426,-113326,-103211,-93995,-85598,-77948,-70979,-64632,-58850,-53585,-48789,-44421,-40444,-36822,-33524,-30521,-27787,-25297,-23030,-20966,-19087,-17376,-15818,-14400,-13109,-11933,-10863,-9889>>,
  <<-87751545,-86501751,-85251984,-84002248,-82752548,-81502887,-80253271,-79003707,-77754200,-76504759,-75255393,-74006111,-72756924,-71507846,-70258890,-69010073,-67761413,-66512932,-65264652,-64016602,-62768810,-61521312,-60274146,-59027357,-57780994,-56535113,-55289779,-54045064,-52801049,-51557827,-50315501,-49074190,-47834027,-46595162,-45357764,-44122026,-42888162,-41656414,-40427057,-39200398,-37976780,-36756591,-35540264,-34328285,-33121193,-31919594,-30724157,-29535628,-28354829,-27182671,-26020150,-24868362,-23728496,-22601846,-21489805,-20393868,-19315622,-18256744,-17218990,-16204174,-15214154,-14250806,-13315994,-12411539,-11539184,-10700553,-9897118,-9130153,-8400707,-7709570,-7057253,-6443967,-5869620,-5333822,-4835891,-4374880,-3949598,-3558651,-3200469,-2873353,-2575509,-2305086,-2060208,-1839007,-1639650,-1460354,-1299411,-1155195,-1026174,-910914,-808083,-716447,-634875,-562332,-497872,-440640,-389859,-344829,-304922,-269571,-238270,-210565,-186051,-164368,-145194,-128242,-113258,-100017,-88316,-77979,-68848,-60782,-53659,-47369,-41815,-36910,-32580,-28758,-25383,-22404,-19774>>,
  <<-60503598,-59107139,-57711211,-56315893,-54921276,-53527464,-52134577,-50742753,-49352149,-47962946,-46575351,-45189602,-43805969,-42424762,-41046336,-39671095,-38299498,-36932071,-35569407,-34212183,-32861161,-31517204,-30181283,-28854488,-27538035,-26233282,-24941732,-23665042,-22405026,-21163660,-19943074,-18745545,-17573482,-16429404,-15315906,-14235619,-13191164,-12185092,-11219819,-10297566,-9420281,-8589586,-7806710,-7072452,-6387144,-5750643,-5162334,-4621157,-4125640,-3673957,-3263990,-2893392,-2559658,-2260188,-1992349,-1753525,-1541163,-1352808,-1186126,-1038928,-909175,-794988,-694649,-606593,-529405,-461813,-402679,-350984,-305824,-266398,-231996,-201991,-175833,-153037,-133176,-115878,-100816,-87703,-76289,-66355,-57711,-50191,-43648,-37957,-33006,-28700,-24955,-21699,-18867,-16404,-14262,-12400,-10781,-9373,-8149,-7085,-6160,-5355,-4656,-4048,-3519,-3059,-2660,-2312,-2010,-1748,-1519,-1321,-1148,-998,-868,-755,-656,-570,-496,-431,-375,-326,-283,-246,-214>>,
  <<-34667171,-33941456,-33217567,-32495636,-31775802,-31058217,-30343038,-29630437,-28920592,-28213695,-27509948,-26809565,-26112772,-25419808,-24730924,-24046384,-23366465,-22691460,-22021670,-21357412,-20699017,-20046825,-19401191,-18762479,-18131063,-17507328,-16891665,-16284472,-15686151,-15097107,-14517747,-13948473,-13389685,-12841776,-12305128,-11780111,-11267079,-10766367,-10278289,-9803133,-9341161,-8892604,-8457661,-8036496,-7629236,-7235971,-6856753,-6491593,-6140465,-5803300,-5479994,-5170404,-4874353,-4591627,-4321985,-4065153,-3820832,-3588699,-3368412,-3159609,-2961917,-2774946,-2598303,-2431585,-2274389,-2126307,-1986936,-1855876,-1732730,-1617109,-1508635,-1406935,-1311650,-1222430,-1138940,-1060853,-987860,-919661,-855971,-796518,-741044,-689301,-641056,-596088,-554187,-515157,-478810,-444971,-413474,-384164,-356895,-331530,-307940,-286004,-265610,-246653,-229033,-212659,-197443,-183307,-170174,-157974,-146643,-136119,-126345,-117269,-108842,-101017,-93752,-87007,-80745,-74933,-69537,-64529,-59880,-55565,-51561,-47844,-44395,-41193,-38223>>,
  <<-66762613,-65514291,-64266192,-63018346,-61770786,-60523551,-59276682,-58030230,-56784248,-55538799,-54293954,-53049792,-51806403,-50563889,-49322365,-48081961,-46842823,-45605118,-44369031,-43134773,-41902582,-40672723,-39445498,-38221242,-37000334,-35783198,-34570308,-33362193,-32159443,-30962717,-29772743,-28590328,-27416365,-26251832,-25097805,-23955455,-22826053,-21710975,-20611692,-19529776,-18466887,-17424765,-16405213,-15410085,-14441252,-13500585,-12589916,-11711007,-10865508,-10054925,-9280574,-8543552,-7844704,-7184596,-6563501,-5981389,-5437926,-4932489,-4464182,-4031860,-3634167,-3269564,-2936376,-2632825,-2357067,-2107230,-1881442,-1677860,-1494691,-1330211,-1182775,-1050833,-932931,-827715,-733934,-650436,-576165,-510160,-451546,-399533,-353406,-312522,-276302,-244228,-215838,-190717,-168495,-148843,-131468,-116109,-102536,-90542,-79945,-70584,-62316,-55014,-48565,-42871,-37843,-33404,-29485,-26025,-22970,-20274,-17894,-15793,-13938,-12302,-10857,-9582,-8456,-7463,-6586,-5813,-5130,-4527,-3995,-3526,-3112,-2746,-2424>>,
  <<-86401769,-85401955,-84402160,-83402387,-82402638,-81402916,-80403223,-79403561,-78403936,-77404350,-76404807,-75405313,-74405871,-73406488,-72407171,-71407924,-70408757,-69409678,-68410695,-67411819,-66413062,-65414434,-64415951,-63417627,-62419480,-61421526,-60423787,-59426286,-58429046,-57432096,-56435466,-55439188,-54443301,-53447844,-52452863,-51458406,-50464529,-49471291,-48478760,-47487007,-46496114,-45506168,-44517269,-43529523,-42543048,-41557974,-40574444,-39592615,-38612659,-37634764,-36659137,-35686004,-34715613,-33748235,-32784164,-31823723,-30867260,-29915157,-28967826,-28025713,-27089301,-26159109,-25235696,-24319661,-23411644,-22512326,-21622430,-20742721,-19874000,-19017109,-18172923,-17342346,-16526307,-15725755,-14941648,-14174946,-13426603,-12697553,-11988699,-11300901,-10634965,-9991627,-9371545,-8775281,-8203300,-7655952,-7133472,-6635971,-6163438,-5715735,-5292604,-4893672,-4518454,-4166367,-3836737,-3528812,-3241776,-2974758,-2726848,-2497107,-2284580,-2088306,-1907328,-1740701,-1587500,-1446825,-1317810,-1199620,-1091460,-992574,-902247,-819808,-744623,-676103,-613695,-556889,-505210,-458217,-415504,-376699,-341456>>,
  <<-31919594,-31201546,-30485874,-29772743,-29062332,-28354829,-27650436,-26949362,-26251832,-25558083,-24868362,-24182931,-23502066,-22826053,-22155195,-21489805,-20830211,-20176751,-19529776,-18889650,-18256744,-17631442,-17014133,-16405213,-15805086,-15214154,-14632825,-14061501,-13500585,-12950469,-12411539,-11884167,-11368710,-10865508,-10374880,-9897118,-9432489,-8981233,-8543552,-8119620,-7709570,-7313501,-6931472,-6563501,-6209570,-5869620,-5543552,-5231233,-4932489,-4647118,-4374880,-4115508,-3868710,-3634167,-3411539,-3200469,-3000585,-2811501,-2632825,-2464154,-2305086,-2155213,-2014133,-1881442,-1756744,-1639650,-1529776,-1426751,-1330211,-1239805,-1155195,-1076053,-1002066,-932931,-868362,-808083,-751832,-699362,-650436,-604829,-562332,-522743,-485874,-451546,-419594,-389859,-362193,-336457,-312522,-290264,-269571,-250334,-232455,-215838,-200398,-186051,-172723,-160343,-148843,-138162,-128242,-119031,-110477,-102536,-95162,-88316,-81961,-76061,-70584,-65501,-60782,-56403,-52338,-48565,-45064,-41815,-38799,-36001,-33404,-30994,-28758>>,
  <<-62247817,-61309768,-60371911,-59434265,-58496850,-57559689,-56622806,-55686230,-54749990,-53814119,-52878653,-51943632,-51009098,-50075100,-49141689,-48208922,-47276863,-46345579,-45415144,-44485643,-43557163,-42629803,-41703671,-40778884,-39855569,-38933867,-38013929,-37095923,-36180029,-35266444,-34355382,-33447076,-32541778,-31639762,-30741324,-29846785,-28956489,-28070808,-27190143,-26314923,-25445607,-24582686,-23726682,-22878152,-22037681,-21205890,-20383430,-19570981,-18769254,-17978983,-17200926,-16435857,-15684567,-14947853,-14226511,-13521334,-12833100,-12162564,-11510449,-10877439,-10264166,-9671202,-9099053,-8548149,-8018835,-7511368,-7025914,-6562539,-6121215,-5701816,-5304121,-4927819,-4572513,-4237728,-3922916,-3627468,-3350720,-3091964,-2850456,-2625427,-2416088,-2221643,-2041296,-1874251,-1719729,-1576963,-1445210,-1323749,-1211887,-1108962,-1014341,-927424,-847642,-774461,-707377,-645917,-589641,-538137,-491022,-447940,-408562,-372581,-339715,-309703,-282306,-257301,-234485,-213671,-194686,-177374,-161588,-147197,-134079,-122123,-111227,-101298,-92252,-84010,-76502,-69662,-63432>>,
  <<-56784248,-55538799,-54293954,-53049792,-51806403,-50563889,-49322365,-48081961,-46842823,-45605118,-44369031,-43134773,-41902582,-40672723,-39445498,-38221242,-37000334,-35783198,-34570308,-33362193,-32159443,-30962717,-29772743,-28590328,-27416365,-26251832,-25097805,-23955455,-22826053,-21710975,-20611692,-19529776,-18466887,-17424765,-16405213,-15410085,-14441252,-13500585,-12589916,-11711007,-10865508,-10054925,-9280574,-8543552,-7844704,-7184596,-6563501,-5981389,-5437926,-4932489,-4464182,-4031860,-3634167,-3269564,-2936376,-2632825,-2357067,-2107230,-1881442,-1677860,-1494691,-1330211,-1182775,-1050833,-932931,-827715,-733934,-650436,-576165,-510160,-451546,-399533,-353406,-312522,-276302,-244228,-215838,-190717,-168495,-148843,-131468,-116109,-102536,-90542,-79945,-70584,-62316,-55014,-48565,-42871,-37843,-33404,-29485,-26025,-22970,-20274,-17894,-15793,-13938,-12302,-10857,-9582,-8456,-7463,-6586,-5813,-5130,-4527,-3995,-3526,-3112,-2746,-2424,-2139,-1887,-1666,-1470,-1297,-1145,-1010,-892>>,
  <<-114800103,-113400119,-112000137,-110600157,-109200181,-107800208,-106400239,-105000275,-103600317,-102200364,-100800419,-99400482,-98000555,-96600638,-95200734,-93800844,-92400971,-91001117,-89601284,-88201477,-86801699,-85401955,-84002248,-82602586,-81202975,-79803422,-78403936,-77004527,-75605207,-74205990,-72806889,-71407924,-70009115,-68610484,-67212058,-65813869,-64415951,-63018346,-61621100,-60224267,-58827909,-57432096,-56036910,-54642445,-53248808,-51856122,-50464529,-49074190,-47685291,-46298046,-44912697,-43529523,-42148843,-40771019,-39396468,-38025661,-36659137,-35297504,-33941456,-32591775,-31249344,-29915157,-28590328,-27276103,-25973865,-24685149,-23411644,-22155195,-20917810,-19701648,-18509016,-17342346,-16204174,-15097107,-14023779,-12986800,-11988699,-11031860,-10118454,-9250370,-8429153,-7655952,-6931472,-6255952,-5629153,-5050370,-4518454,-4031860,-3588699,-3186800,-2823779,-2497107,-2204174,-1942346,-1709016,-1501648,-1317810,-1155195,-1011644,-885149,-773865,-676103,-590328,-515157,-449344,-391775,-341456,-297504,-259137,-225661,-196468,-171019,-148843,-129523,-112697,-98046,-85291,-74190,-64529,-56122,-48808>>,
  <<-61621100,-60623317,-59625766,-58628472,-57631462,-56634765,-55638414,-54642445,-53646899,-52651819,-51657253,-50663255,-49669885,-48677206,-47685291,-46694219,-45704077,-44714960,-43726974,-42740235,-41754870,-40771019,-39788837,-38808491,-37830168,-36854070,-35880419,-34909460,-33941456,-32976699,-32015504,-31058217,-30105210,-29156889,-28213695,-27276103,-26344623,-25419808,-24502247,-23592574,-22691460,-21799620,-20917810,-20046825,-19187500,-18340701,-17507328,-16688306,-15884580,-15097107,-14326848,-13574758,-12841776,-12128812,-11436737,-10766367,-10118454,-9493672,-8892604,-8315735,-7763438,-7235971,-6733472,-6255952,-5803300,-5375281,-4971545,-4591627,-4234965,-3900901,-3588699,-3297553,-3026603,-2774946,-2541648,-2325755,-2126307,-1942346,-1772923,-1617109,-1474000,-1342721,-1222430,-1112326,-1011644,-919661,-835696,-759109,-689301,-625713,-567826,-515157,-467260,-423723,-384164,-348235,-315613,-286004,-259137,-234764,-212659,-192615,-174444,-157974,-143048,-129523,-117269,-106168,-96114,-87007,-78760,-71291,-64529,-58406,-52863,-47844,-43301,-39188,-35466,-32096,-29046>>,
  <<-80753112,-79503526,-78253995,-77004527,-75755130,-74505813,-73256586,-72007463,-70758456,-69509582,-68260857,-67012302,-65763938,-64515793,-63267894,-62020274,-60772970,-59526025,-58279485,-57033404,-55787843,-54542871,-53298565,-52055014,-50812316,-49570584,-48329945,-47090542,-45852536,-44616109,-43381468,-42148843,-40918495,-39690717,-38465838,-37244228,-36026302,-34812522,-33603406,-32399533,-31201546,-30010160,-28826165,-27650436,-26483934,-25327715,-24182931,-23050833,-21932775,-20830211,-19744691,-18677860,-17631442,-16607230,-15607067,-14632825,-13686376,-12769564,-11884167,-11031860,-10214182,-9432489,-8687926,-7981389,-7313501,-6684596,-6094704,-5543552,-5030574,-4554925,-4115508,-3711007,-3339916,-3000585,-2691252,-2410085,-2155213,-1924765,-1716887,-1529776,-1361692,-1210975,-1076053,-955455,-847805,-751832,-666365,-590328,-522743,-462717,-409443,-362193,-320308,-283198,-250334,-221242,-195498,-172723,-152582,-134773,-119031,-105118,-92823,-81961,-72365,-63889,-56403,-49792,-43954,-38799,-34248,-30230,-26682,-23551,-20786,-18346,-16192,-14291,-12613,-11132,-9824>>,
  <<-53298565,-52055014,-50812316,-49570584,-48329945,-47090542,-45852536,-44616109,-43381468,-42148843,-40918495,-39690717,-38465838,-37244228,-36026302,-34812522,-33603406,-32399533,-31201546,-30010160,-28826165,-27650436,-26483934,-25327715,-24182931,-23050833,-21932775,-20830211,-19744691,-18677860,-17631442,-16607230,-15607067,-14632825,-13686376,-12769564,-11884167,-11031860,-10214182,-9432489,-8687926,-7981389,-7313501,-6684596,-6094704,-5543552,-5030574,-4554925,-4115508,-3711007,-3339916,-3000585,-2691252,-2410085,-2155213,-1924765,-1716887,-1529776,-1361692,-1210975,-1076053,-955455,-847805,-751832,-666365,-590328,-522743,-462717,-409443,-362193,-320308,-283198,-250334,-221242,-195498,-172723,-152582,-134773,-119031,-105118,-92823,-81961,-72365,-63889,-56403,-49792,-43954,-38799,-34248,-30230,-26682,-23551,-20786,-18346,-16192,-14291,-12613,-11132,-9824,-8670,-7652,-6753,-5960,-5260,-4642,-4097,-3615,-3191,-2816,-2485,-2193,-1935,-1708,-1507,-1330,-1174,-1036,-914,-807,-712,-628>>,
  <<-110750155,-109500176,-108250199,-107000225,-105750255,-104500289,-103250328,-102000372,-100750421,-99500477,-98250541,-97000613,-95750694,-94500787,-93250892,-92001010,-90751145,-89501297,-88251470,-87001666,-85751887,-84502139,-83252424,-82002746,-80753112,-79503526,-78253995,-77004527,-75755130,-74505813,-73256586,-72007463,-70758456,-69509582,-68260857,-67012302,-65763938,-64515793,-63267894,-62020274,-60772970,-59526025,-58279485,-57033404,-55787843,-54542871,-53298565,-52055014,-50812316,-49570584,-48329945,-47090542,-45852536,-44616109,-43381468,-42148843,-40918495,-39690717,-38465838,-37244228,-36026302,-34812522,-33603406,-32399533,-31201546,-30010160,-28826165,-27650436,-26483934,-25327715,-24182931,-23050833,-21932775,-20830211,-19744691,-18677860,-17631442,-16607230,-15607067,-14632825,-13686376,-12769564,-11884167,-11031860,-10214182,-9432489,-8687926,-7981389,-7313501,-6684596,-6094704,-5543552,-5030574,-4554925,-4115508,-3711007,-3339916,-3000585,-2691252,-2410085,-2155213,-1924765,-1716887,-1529776,-1361692,-1210975,-1076053,-955455,-847805,-751832,-666365,-590328,-522743,-462717,-409443,-362193,-320308,-283198,-250334,-221242,-195498>>,
  <<-100500432,-99250489,-98000555,-96750628,-95500712,-94250807,-93000914,-91751036,-90501174,-89251330,-88001507,-86751708,-85501935,-84252193,-83002485,-81752816,-80503191,-79253615,-78004097,-76754642,-75505260,-74255960,-73006753,-71757652,-70508670,-69259824,-68011132,-66762613,-65514291,-64266192,-63018346,-61770786,-60523551,-59276682,-58030230,-56784248,-55538799,-54293954,-53049792,-51806403,-50563889,-49322365,-48081961,-46842823,-45605118,-44369031,-43134773,-41902582,-40672723,-39445498,-38221242,-37000334,-35783198,-34570308,-33362193,-32159443,-30962717,-29772743,-28590328,-27416365,-26251832,-25097805,-23955455,-22826053,-21710975,-20611692,-19529776,-18466887,-17424765,-16405213,-15410085,-14441252,-13500585,-12589916,-11711007,-10865508,-10054925,-9280574,-8543552,-7844704,-7184596,-6563501,-5981389,-5437926,-4932489,-4464182,-4031860,-3634167,-3269564,-2936376,-2632825,-2357067,-2107230,-1881442,-1677860,-1494691,-1330211,-1182775,-1050833,-932931,-827715,-733934,-650436,-576165,-510160,-451546,-399533,-353406,-312522,-276302,-244228,-215838,-190717,-168495,-148843,-131468,-116109,-102536,-90542,-79945,-70584>>,
  <<-42592339,-41853341,-41115186,-40377937,-39641664,-38906438,-38172339,-37439450,-36707861,-35977668,-35248973,-34521888,-33796528,-33073020,-32351496,-31632100,-30914983,-30200306,-29488242,-28778971,-28072687,-27369595,-26669912,-25973865,-25281696,-24593659,-23910021,-23231062,-22557074,-21888365,-21225253,-20568071,-19917162,-19272883,-18635600,-18005689,-17383537,-16769536,-16164085,-15567587,-14980447,-14403072,-13835864,-13279221,-12733533,-12199183,-11676535,-11165940,-10667731,-10182215,-9709676,-9250370,-8804521,-8372321,-7953928,-7549461,-7159003,-6782597,-6420247,-6071917,-5737534,-5416984,-5110117,-4816749,-4536661,-4269603,-4015298,-3773441,-3543705,-3325744,-3119194,-2923677,-2738804,-2564178,-2399397,-2244056,-2097749,-1960072,-1830626,-1709016,-1594855,-1487765,-1387376,-1293332,-1205285,-1122900,-1045857,-973846,-906571,-843750,-785113,-730404,-679379,-631807,-587469,-546158,-507679,-471847,-438489,-407442,-378552,-351674,-326674,-303424,-281805,-261707,-243025,-225661,-209526,-194532,-180602,-167661,-155640,-144475,-134106,-124476,-115533,-107230,-99520,-92362,-85717>>,
  <<-75581220,-74641734,-73702299,-72762920,-71823602,-70884351,-69945173,-69006077,-68067069,-67128160,-66189357,-65250673,-64312118,-63373705,-62435448,-61497363,-60559466,-59621776,-58684313,-57747099,-56810159,-55873520,-54937210,-54001262,-53065712,-52130599,-51195964,-50261854,-49328322,-48395421,-47463215,-46531770,-45601159,-44671464,-43742773,-42815181,-41888794,-40963728,-40040108,-39118071,-38197768,-37279361,-36363030,-35448966,-34537381,-33628504,-32722584,-31819889,-30920711,-30025365,-29134191,-28247556,-27365855,-26489510,-25618975,-24754734,-23897304,-23047232,-22205101,-21371523,-20547143,-19732636,-18928707,-18136085,-17355523,-16587794,-15833685,-15093991,-14369511,-13661039,-12969355,-12295220,-11639365,-11002482,-10385213,-9788145,-9211796,-8656612,-8122957,-7611104,-7121239,-6653447,-6207720,-5783951,-5381937,-5001386,-4641916,-4303068,-3984309,-3685040,-3404607,-3142312,-2897415,-2669152,-2456738,-2259379,-2076276,-1906634,-1749669,-1604612,-1470714,-1347251,-1233524,-1128863,-1032630,-944219,-863054,-788594,-720329,-657780,-600501,-548075,-500111,-456250,-416156,-379519,-346052,-315489,-287587,-262121,-238883>>,
  <<-58279485,-57033404,-55787843,-54542871,-53298565,-52055014,-50812316,-49570584,-48329945,-47090542,-45852536,-44616109,-43381468,-42148843,-40918495,-39690717,-38465838,-37244228,-36026302,-34812522,-33603406,-32399533,-31201546,-30010160,-28826165,-27650436,-26483934,-25327715,-24182931,-23050833,-21932775,-20830211,-19744691,-18677860,-17631442,-16607230,-15607067,-14632825,-13686376,-12769564,-11884167,-11031860,-10214182,-9432489,-8687926,-7981389,-7313501,-6684596,-6094704,-5543552,-5030574,-4554925,-4115508,-3711007,-3339916,-3000585,-2691252,-2410085,-2155213,-1924765,-1716887,-1529776,-1361692,-1210975,-1076053,-955455,-847805,-751832,-666365,-590328,-522743,-462717,-409443,-362193,-320308,-283198,-250334,-221242,-195498,-172723,-152582,-134773,-119031,-105118,-92823,-81961,-72365,-63889,-56403,-49792,-43954,-38799,-34248,-30230,-26682,-23551,-20786,-18346,-16192,-14291,-12613,-11132,-9824,-8670,-7652,-6753,-5960,-5260,-4642,-4097,-3615,-3191,-2816,-2485,-2193,-1935,-1708,-1507,-1330,-1174,-1036>>,
  <<-45229167,-44299862,-43371598,-42444475,-41518602,-40594099,-39671095,-38749733,-37830168,-36912569,-35997120,-35084022,-34173492,-33265767,-32361103,-31459778,-30562094,-29668375,-28778971,-27894260,-27014649,-26140572,-25272495,-24410914,-23556360,-22709393,-21870608,-21040630,-20220117,-19409755,-18610259,-17822370,-17046848,-16284472,-15536033,-14802329,-14084157,-13382307,-12697553,-12030645,-11382298,-10753186,-10143931,-9555092,-8987161,-8440549,-7915587,-7412513,-6931472,-6472513,-6035587,-5620549,-5227161,-4855092,-4503931,-4173186,-3862298,-3570645,-3297553,-3042307,-2804157,-2582329,-2376033,-2184472,-2006848,-1842370,-1690259,-1549755,-1420117,-1300630,-1190608,-1089393,-996360,-910914,-832495,-760572,-694649,-634260,-578971,-528375,-482094,-439778,-401103,-365767,-333492,-304022,-277120,-252569,-230168,-209733,-191095,-174099,-158602,-144475,-131598,-119862,-109167,-99421,-90542,-82452,-75082,-68369,-62254,-56685,-51612,-46993,-42786,-38954,-35466,-32289,-29396,-26763,-24364,-22181,-20193,-18383,-16735,-15235,-13869,-12625,-11493>>,
  <<-60772970,-59526025,-58279485,-57033404,-55787843,-54542871,-53298565,-52055014,-50812316,-49570584,-48329945,-47090542,-45852536,-44616109,-43381468,-42148843,-40918495,-39690717,-38465838,-37244228,-36026302,-34812522,-33603406,-32399533,-31201546,-30010160,-28826165,-27650436,-26483934,-25327715,-24182931,-23050833,-21932775,-20830211,-19744691,-18677860,-17631442,-16607230,-15607067,-14632825,-13686376,-12769564,-11884167,-11031860,-10214182,-9432489,-8687926,-7981389,-7313501,-6684596,-6094704,-5543552,-5030574,-4554925,-4115508,-3711007,-3339916,-3000585,-2691252,-2410085,-2155213,-1924765,-1716887,-1529776,-1361692,-1210975,-1076053,-955455,-847805,-751832,-666365,-590328,-522743,-462717,-409443,-362193,-320308,-283198,-250334,-221242,-195498,-172723,-152582,-134773,-119031,-105118,-92823,-81961,-72365,-63889,-56403,-49792,-43954,-38799,-34248,-30230,-26682,-23551,-20786,-18346,-16192,-14291,-12613,-11132,-9824,-8670,-7652,-6753,-5960,-5260,-4642,-4097,-3615,-3191,-2816,-2485,-2193,-1935,-1708,-1507,-1330>>,
  <<-65763938,-64515793,-63267894,-62020274,-60772970,-59526025,-58279485,-57033404,-55787843,-54542871,-53298565,-52055014,-50812316,-49570584,-48329945,-47090542,-45852536,-44616109,-43381468,-42148843,-40918495,-39690717,-38465838,-37244228,-36026302,-34812522,-33603406,-32399533,-31201546,-30010160,-28826165,-27650436,-26483934,-25327715,-24182931,-23050833,-21932775,-20830211,-19744691,-18677860,-17631442,-16607230,-15607067,-14632825,-13686376,-12769564,-11884167,-11031860,-10214182,-9432489,-8687926,-7981389,-7313501,-6684596,-6094704,-5543552,-5030574,-4554925,-4115508,-3711007,-3339916,-3000585,-2691252,-2410085,-2155213,-1924765,-1716887,-1529776,-1361692,-1210975,-1076053,-955455,-847805,-751832,-666365,-590328,-522743,-462717,-409443,-362193,-320308,-283198,-250334,-221242,-195498,-172723,-152582,-134773,-119031,-105118,-92823,-81961,-72365,-63889,-56403,-49792,-43954,-38799,-34248,-30230,-26682,-23551,-20786,-18346,-16192,-14291,-12613,-11132,-9824,-8670,-7652,-6753,-5960,-5260,-4642,-4097,-3615,-3191,-2816,-2485,-2193>>,
  <<-63517452,-62269774,-61022404,-59775383,-58528758,-57282580,-56036910,-54791815,-53547369,-52303659,-51060782,-49818848,-48577979,-47338316,-46100017,-44863258,-43628242,-42395194,-41164368,-39936051,-38710565,-37488270,-36269571,-35054922,-33844829,-32639859,-31440640,-30247872,-29062332,-27884875,-26716447,-25558083,-24410914,-23276174,-22155195,-21049411,-19960354,-18889650,-17839007,-16810208,-15805086,-14825509,-13873353,-12950469,-12058651,-11199598,-10374880,-9585891,-8833822,-8119620,-7443967,-6807253,-6209570,-5650707,-5130153,-4647118,-4200553,-3789184,-3411539,-3065994,-2750806,-2464154,-2204174,-1968990,-1756744,-1565622,-1393868,-1239805,-1101846,-978496,-868362,-770150,-682671,-604829,-535628,-474157,-419594,-371193,-328285,-290264,-256591,-226780,-200398,-177057,-156414,-138162,-122026,-107764,-95162,-84027,-74190,-65501,-57827,-51049,-45064,-39779,-35113,-30994,-27357,-24146,-21312,-18810,-16602,-14652,-12932,-11413,-10073,-8890,-7846,-6924,-6111,-5393,-4759,-4200,-3707,-3271,-2887,-2548,-2248,-1984,-1751>>,
  <<-34537381,-33628504,-32722584,-31819889,-30920711,-30025365,-29134191,-28247556,-27365855,-26489510,-25618975,-24754734,-23897304,-23047232,-22205101,-21371523,-20547143,-19732636,-18928707,-18136085,-17355523,-16587794,-15833685,-15093991,-14369511,-13661039,-12969355,-12295220,-11639365,-11002482,-10385213,-9788145,-9211796,-8656612,-8122957,-7611104,-7121239,-6653447,-6207720,-5783951,-5381937,-5001386,-4641916,-4303068,-3984309,-3685040,-3404607,-3142312,-2897415,-2669152,-2456738,-2259379,-2076276,-1906634,-1749669,-1604612,-1470714,-1347251,-1233524,-1128863,-1032630,-944219,-863054,-788594,-720329,-657780,-600501,-548075,-500111,-456250,-416156,-379519,-346052,-315489,-287587,-262121,-238883,-217682,-198345,-180710,-164630,-149970,-136606,-124426,-113326,-103211,-93995,-85598,-77948,-70979,-64632,-58850,-53585,-48789,-44421,-40444,-36822,-33524,-30521,-27787,-25297,-23030,-20966,-19087,-17376,-15818,-14400,-13109,-11933,-10863,-9889,-9002,-8195,-7460,-6791,-6182,-5627,-5123,-4663,-4245,-3864>>,
  <<-57830840,-56834077,-55837655,-54841607,-53845972,-52850795,-51856122,-50862006,-49868505,-48875683,-47883609,-46892362,-45902027,-44912697,-43924476,-42937477,-41951827,-40967661,-39985132,-39004405,-38025661,-37049101,-36074942,-35103424,-34134807,-33169376,-32207442,-31249344,-30295450,-29346158,-28401902,-27463149,-26530404,-25604210,-24685149,-23773846,-22870964,-21977210,-21093332,-20220117,-19358391,-18509016,-17672884,-16850917,-16044056,-15253255,-14479477,-13723677,-12986800,-12269761,-11573441,-10898667,-10246207,-9616749,-9010896,-8429153,-7871917,-7339470,-6831972,-6349461,-5891850,-5458929,-5050370,-4665731,-4304467,-3965940,-3649428,-3354138,-3079221,-2823779,-2586884,-2367587,-2164927,-1977945,-1805689,-1647227,-1501648,-1368071,-1245648,-1133569,-1031062,-937395,-851879,-773865,-702747,-637958,-578971,-525295,-476478,-432100,-391775,-355147,-321888,-291698,-264303,-239450,-216908,-196468,-177937,-161140,-145917,-132122,-119624,-108302,-98046,-88757,-80344,-72726,-65828,-59582,-53928,-48808,-44174,-39978,-36181,-32743,-29632,-26816,-24267,-21960,-19873>>,
  <<-62459402,-61062314,-59665663,-58269514,-56873942,-55479032,-54084885,-52691612,-51299345,-49908233,-48518446,-47130182,-45743664,-44359149,-42976932,-41597348,-40220781,-38847668,-37478505,-36113860,-34754373,-33400772,-32053880,-30714620,-29384036,-28063291,-26753687,-25456665,-24173822,-22906909,-21657836,-20428672,-19221638,-18039092,-16883512,-15757467,-14663580,-13604481,-12582756,-11600885,-10661173,-9765687,-8916185,-8114061,-7360289,-6655391,-5999415,-5391933,-4832058,-4318477,-3849500,-3423117,-3037065,-2688893,-2376033,-2095857,-1845738,-1623092,-1425422,-1250341,-1095603,-959106,-838909,-733227,-640435,-559060,-487774,-425385,-370829,-323157,-281528,-245195,-213502,-185867,-161780,-140793,-122512,-106592,-92731,-80665,-70164,-61025,-53074,-46156,-40138,-34904,-30351,-26391,-22947,-19952,-17348,-15083,-13114,-11402,-9913,-8618,-7493,-6514,-5664,-4924,-4281,-3722,-3235,-2813,-2445,-2126,-1848,-1607,-1397,-1214,-1056,-918,-798,-694,-603,-524,-456,-396,-344,-299,-260>>,
  <<-57631462,-56834077,-56036910,-55239978,-54443301,-53646899,-52850795,-52055014,-51259582,-50464529,-49669885,-48875683,-48081961,-47288757,-46496114,-45704077,-44912697,-44122026,-43332122,-42543048,-41754870,-40967661,-40181499,-39396468,-38612659,-37830168,-37049101,-36269571,-35491698,-34715613,-33941456,-33169376,-32399533,-31632100,-30867260,-30105210,-29346158,-28590328,-27837958,-27089301,-26344623,-25604210,-24868362,-24137395,-23411644,-22691460,-21977210,-21269280,-20568071,-19874000,-19187500,-18509016,-17839007,-17177945,-16526307,-15884580,-15253255,-14632825,-14023779,-13426603,-12841776,-12269761,-11711007,-11165940,-10634965,-10118454,-9616749,-9130153,-8658929,-8203300,-7763438,-7339470,-6931472,-6539470,-6163438,-5803300,-5458929,-5130153,-4816749,-4518454,-4234965,-3965940,-3711007,-3469761,-3241776,-3026603,-2823779,-2632825,-2453255,-2284580,-2126307,-1977945,-1839007,-1709016,-1587500,-1474000,-1368071,-1269280,-1177210,-1091460,-1011644,-937395,-868362,-804210,-744623,-689301,-637958,-590328,-546158,-505210,-467260,-432100,-399533,-369376,-341456,-315613,-291698,-269571,-249101,-230168,-212659>>,
  <<-103500320,-102250363,-101000411,-99750465,-98500527,-97250598,-96000677,-94750767,-93500870,-92250985,-91001117,-89751265,-88501434,-87251625,-86001841,-84752086,-83502364,-82252678,-81003035,-79753439,-78503897,-77254415,-76005003,-74755669,-73506424,-72257279,-71008248,-69759345,-68510589,-67261998,-66013594,-64765403,-63517452,-62269774,-61022404,-59775383,-58528758,-57282580,-56036910,-54791815,-53547369,-52303659,-51060782,-49818848,-48577979,-47338316,-46100017,-44863258,-43628242,-42395194,-41164368,-39936051,-38710565,-37488270,-36269571,-35054922,-33844829,-32639859,-31440640,-30247872,-29062332,-27884875,-26716447,-25558083,-24410914,-23276174,-22155195,-21049411,-19960354,-18889650,-17839007,-16810208,-15805086,-14825509,-13873353,-12950469,-12058651,-11199598,-10374880,-9585891,-8833822,-8119620,-7443967,-6807253,-6209570,-5650707,-5130153,-4647118,-4200553,-3789184,-3411539,-3065994,-2750806,-2464154,-2204174,-1968990,-1756744,-1565622,-1393868,-1239805,-1101846,-978496,-868362,-770150,-682671,-604829,-535628,-474157,-419594,-371193,-328285,-290264,-256591,-226780,-200398,-177057,-156414,-138162,-122026,-107764,-95162>>,
  <<-43139706,-42444475,-41749947,-41056171,-40363202,-39671095,-38979911,-38289716,-37600577,-36912569,-36225770,-35540264,-34856140,-34173492,-33492422,-32813035,-32135447,-31459778,-30786156,-30114717,-29445605,-28778971,-28114976,-27453791,-26795593,-26140572,-25488925,-24840860,-24196596,-23556360,-22920392,-22288940,-21662263,-21040630,-20424321,-19813623,-19208834,-18610259,-18018213,-17433015,-16854990,-16284472,-15721792,-15167289,-14621299,-14084157,-13556197,-13037746,-12529125,-12030645,-11542607,-11065298,-10598988,-10143931,-9700360,-9268485,-8848495,-8440549,-8044783,-7661302,-7290183,-6931472,-6585183,-6251302,-5929783,-5620549,-5323495,-5038485,-4765360,-4503931,-4253988,-4015298,-3787607,-3570645,-3364125,-3167746,-2981197,-2804157,-2636299,-2477289,-2326792,-2184472,-2049990,-1923015,-1803213,-1690259,-1583834,-1483623,-1389321,-1300630,-1217263,-1138940,-1065392,-996360,-931596,-870860,-813925,-760572,-710593,-663791,-619976,-578971,-540605,-504717,-471156,-439778,-410447,-383035,-357422,-333492,-311140,-290264,-270770,-252569,-235577,-219716,-204911,-191095,-178202,-166171,-154947>>,
  <<-73756265,-72507099,-71258044,-70009115,-68760328,-67511702,-66263259,-65015023,-63767022,-62519286,-61271851,-60024757,-58778049,-57531777,-56286001,-55040784,-53796202,-52552338,-51309286,-50067153,-48826061,-47586145,-46347559,-45110477,-43875096,-42641635,-41410343,-40181499,-38955419,-37732455,-36513002,-35297504,-34086457,-32880414,-31679991,-30485874,-29298822,-28119676,-26949362,-25788897,-24639395,-23502066,-22378223,-21269280,-20176751,-19102242,-18047446,-17014133,-16004127,-15019291,-14061501,-13132617,-12234446,-11368710,-10537007,-9740770,-8981233,-8259394,-7575990,-6931472,-6325990,-5759394,-5231233,-4740770,-4287007,-3868710,-3484446,-3132617,-2811501,-2519291,-2254127,-2014133,-1797446,-1602242,-1426751,-1269280,-1128223,-1002066,-889395,-788897,-699362,-619676,-548822,-485874,-429991,-380414,-336457,-297504,-263002,-232455,-205419,-181499,-160343,-141635,-125096,-110477,-97559,-86145,-76061,-67153,-59286,-52338,-46202,-40784,-36001,-31777,-28049,-24757,-21851,-19286,-17022,-15023,-13259,-11702,-10328,-9115,-8044,-7099,-6265,-5529,-4880>>,
  <<-101360396,-99960456,-98560524,-97160603,-95760694,-94360798,-92960918,-91561056,-90161214,-88761397,-87361607,-85961848,-84562126,-83162445,-81762813,-80363235,-78963722,-77564281,-76164924,-74765664,-73366514,-71967493,-70568618,-69169913,-67771402,-66373114,-64975083,-63577348,-62179952,-60782947,-59386391,-57990351,-56594904,-55200138,-53806156,-52413074,-51021025,-49630164,-48240665,-46852731,-45466592,-44082512,-42700793,-41321780,-39945867,-38573502,-37205195,-35841528,-34483157,-33130829,-31785385,-30447774,-29119060,-27800435,-26493227,-25198909,-23919106,-22655603,-21410341,-20185422,-18983092,-17805738,-16655857,-15536033,-14448893,-13397065,-12383117,-11409500,-10478477,-9592058,-8751933,-7959415,-7215391,-6520289,-5874061,-5276185,-4725687,-4221173,-3760885,-3342756,-2964481,-2623580,-2317467,-2043512,-1799092,-1581638,-1388672,-1217836,-1066909,-933822,-816665,-713687,-623291,-544036,-474620,-413880,-360772,-314373,-273860,-238505,-207668,-180781,-157348,-136932,-119149,-103664,-90182,-78446,-68233,-59345,-51612,-44885,-39032,-33942,-29514,-25663,-22314,-19402,-16869,-14667,-12752>>,
  <<-105840253,-104440291,-103040335,-101640385,-100240443,-98840510,-97440586,-96040675,-94640776,-93240893,-91841027,-90441181,-89041358,-87641562,-86241797,-84842067,-83442378,-82042735,-80643146,-79243619,-77844163,-76444788,-75045507,-73646335,-72247286,-70848381,-69449639,-68051087,-66652752,-65254667,-63856869,-62459402,-61062314,-59665663,-58269514,-56873942,-55479032,-54084885,-52691612,-51299345,-49908233,-48518446,-47130182,-45743664,-44359149,-42976932,-41597348,-40220781,-38847668,-37478505,-36113860,-34754373,-33400772,-32053880,-30714620,-29384036,-28063291,-26753687,-25456665,-24173822,-22906909,-21657836,-20428672,-19221638,-18039092,-16883512,-15757467,-14663580,-13604481,-12582756,-11600885,-10661173,-9765687,-8916185,-8114061,-7360289,-6655391,-5999415,-5391933,-4832058,-4318477,-3849500,-3423117,-3037065,-2688893,-2376033,-2095857,-1845738,-1623092,-1425422,-1250341,-1095603,-959106,-838909,-733227,-640435,-559060,-487774,-425385,-370829,-323157,-281528,-245195,-213502,-185867,-161780,-140793,-122512,-106592,-92731,-80665,-70164,-61025,-53074,-46156,-40138,-34904,-30351,-26391,-22947,-19952>>,
  <<-73756265,-72507099,-71258044,-70009115,-68760328,-67511702,-66263259,-65015023,-63767022,-62519286,-61271851,-60024757,-58778049,-57531777,-56286001,-55040784,-53796202,-52552338,-51309286,-50067153,-48826061,-47586145,-46347559,-45110477,-43875096,-42641635,-41410343,-40181499,-38955419,-37732455,-36513002,-35297504,-34086457,-32880414,-31679991,-30485874,-29298822,-28119676,-26949362,-25788897,-24639395,-23502066,-22378223,-21269280,-20176751,-19102242,-18047446,-17014133,-16004127,-15019291,-14061501,-13132617,-12234446,-11368710,-10537007,-9740770,-8981233,-8259394,-7575990,-6931472,-6325990,-5759394,-5231233,-4740770,-4287007,-3868710,-3484446,-3132617,-2811501,-2519291,-2254127,-2014133,-1797446,-1602242,-1426751,-1269280,-1128223,-1002066,-889395,-788897,-699362,-619676,-548822,-485874,-429991,-380414,-336457,-297504,-263002,-232455,-205419,-181499,-160343,-141635,-125096,-110477,-97559,-86145,-76061,-67153,-59286,-52338,-46202,-40784,-36001,-31777,-28049,-24757,-21851,-19286,-17022,-15023,-13259,-11702,-10328,-9115,-8044,-7099,-6265,-5529,-4880>>,
  <<-57531777,-56286001,-55040784,-53796202,-52552338,-51309286,-50067153,-48826061,-47586145,-46347559,-45110477,-43875096,-42641635,-41410343,-40181499,-38955419,-37732455,-36513002,-35297504,-34086457,-32880414,-31679991,-30485874,-29298822,-28119676,-26949362,-25788897,-24639395,-23502066,-22378223,-21269280,-20176751,-19102242,-18047446,-17014133,-16004127,-15019291,-14061501,-13132617,-12234446,-11368710,-10537007,-9740770,-8981233,-8259394,-7575990,-6931472,-6325990,-5759394,-5231233,-4740770,-4287007,-3868710,-3484446,-3132617,-2811501,-2519291,-2254127,-2014133,-1797446,-1602242,-1426751,-1269280,-1128223,-1002066,-889395,-788897,-699362,-619676,-548822,-485874,-429991,-380414,-336457,-297504,-263002,-232455,-205419,-181499,-160343,-141635,-125096,-110477,-97559,-86145,-76061,-67153,-59286,-52338,-46202,-40784,-36001,-31777,-28049,-24757,-21851,-19286,-17022,-15023,-13259,-11702,-10328,-9115,-8044,-7099,-6265,-5529,-4880,-4306,-3801,-3354,-2960,-2612,-2305,-2034,-1795,-1584,-1398,-1234,-1089,-961>>,
  <<-103750312,-102500354,-101250401,-100000454,-98750514,-97500583,-96250661,-95000748,-93750848,-92500961,-91251089,-90001234,-88751398,-87501584,-86251795,-85002034,-83752305,-82502612,-81252960,-80003354,-78753801,-77504306,-76254880,-75005529,-73756265,-72507099,-71258044,-70009115,-68760328,-67511702,-66263259,-65015023,-63767022,-62519286,-61271851,-60024757,-58778049,-57531777,-56286001,-55040784,-53796202,-52552338,-51309286,-50067153,-48826061,-47586145,-46347559,-45110477,-43875096,-42641635,-41410343,-40181499,-38955419,-37732455,-36513002,-35297504,-34086457,-32880414,-31679991,-30485874,-29298822,-28119676,-26949362,-25788897,-24639395,-23502066,-22378223,-21269280,-20176751,-19102242,-18047446,-17014133,-16004127,-15019291,-14061501,-13132617,-12234446,-11368710,-10537007,-9740770,-8981233,-8259394,-7575990,-6931472,-6325990,-5759394,-5231233,-4740770,-4287007,-3868710,-3484446,-3132617,-2811501,-2519291,-2254127,-2014133,-1797446,-1602242,-1426751,-1269280,-1128223,-1002066,-889395,-788897,-699362,-619676,-548822,-485874,-429991,-380414,-336457,-297504,-263002,-232455,-205419,-181499,-160343,-141635,-125096,-110477,-97559>>,
  <<-54224262,-53179150,-52134577,-51090601,-50047287,-49004709,-47962946,-46922087,-45882230,-44843484,-43805969,-42769818,-41735178,-40702210,-39671095,-38642028,-37615228,-36590933,-35569407,-34550939,-33535845,-32524473,-31517204,-30514453,-29516672,-28524354,-27538035,-26558294,-25585757,-24621098,-23665042,-22718362,-21781883,-20856479,-19943074,-19042636,-18156175,-17284739,-16429404,-15591270,-14771446,-13971045,-13191164,-12432876,-11697211,-10985142,-10297566,-9635292,-8999024,-8389345,-7806710,-7251432,-6723677,-6223459,-5750643,-5304944,-4885937,-4493063,-4125640,-3782880,-3463902,-3167746,-2893392,-2639777,-2405805,-2190366,-1992349,-1810652,-1644192,-1491917,-1352808,-1225887,-1110222,-1004930,-909175,-822172,-743189,-671541,-606593,-547755,-494484,-446279,-402679,-363261,-327639,-295459,-266398,-240161,-216480,-195111,-175833,-158445,-142764,-128625,-115878,-104388,-94032,-84699,-76289,-68711,-61883,-55732,-50191,-45199,-40703,-36653,-33006,-29721,-26763,-24098,-21699,-19538,-17592,-15840,-14262,-12842,-11562,-10411,-9373,-8439,-7599>>,
  <<-73366514,-71967493,-70568618,-69169913,-67771402,-66373114,-64975083,-63577348,-62179952,-60782947,-59386391,-57990351,-56594904,-55200138,-53806156,-52413074,-51021025,-49630164,-48240665,-46852731,-45466592,-44082512,-42700793,-41321780,-39945867,-38573502,-37205195,-35841528,-34483157,-33130829,-31785385,-30447774,-29119060,-27800435,-26493227,-25198909,-23919106,-22655603,-21410341,-20185422,-18983092,-17805738,-16655857,-15536033,-14448893,-13397065,-12383117,-11409500,-10478477,-9592058,-8751933,-7959415,-7215391,-6520289,-5874061,-5276185,-4725687,-4221173,-3760885,-3342756,-2964481,-2623580,-2317467,-2043512,-1799092,-1581638,-1388672,-1217836,-1066909,-933822,-816665,-713687,-623291,-544036,-474620,-413880,-360772,-314373,-273860,-238505,-207668,-180781,-157348,-136932,-119149,-103664,-90182,-78446,-68233,-59345,-51612,-44885,-39032,-33942,-29514,-25663,-22314,-19402,-16869,-14667,-12752,-11087,-9639,-8381,-7286,-6335,-5507,-4788,-4163,-3619,-3146,-2735,-2378,-2067,-1797,-1562,-1358,-1181,-1027,-893,-776>>,
  <<-37732455,-36513002,-35297504,-34086457,-32880414,-31679991,-30485874,-29298822,-28119676,-26949362,-25788897,-24639395,-23502066,-22378223,-21269280,-20176751,-19102242,-18047446,-17014133,-16004127,-15019291,-14061501,-13132617,-12234446,-11368710,-10537007,-9740770,-8981233,-8259394,-7575990,-6931472,-6325990,-5759394,-5231233,-4740770,-4287007,-3868710,-3484446,-3132617,-2811501,-2519291,-2254127,-2014133,-1797446,-1602242,-1426751,-1269280,-1128223,-1002066,-889395,-788897,-699362,-619676,-548822,-485874,-429991,-380414,-336457,-297504,-263002,-232455,-205419,-181499,-160343,-141635,-125096,-110477,-97559,-86145,-76061,-67153,-59286,-52338,-46202,-40784,-36001,-31777,-28049,-24757,-21851,-19286,-17022,-15023,-13259,-11702,-10328,-9115,-8044,-7099,-6265,-5529,-4880,-4306,-3801,-3354,-2960,-2612,-2305,-2034,-1795,-1584,-1398,-1234,-1089,-961,-848,-748,-661,-583,-514,-454,-401,-354,-312,-275,-243,-214,-189,-167,-147,-130>>,
  <<-37478505,-36113860,-34754373,-33400772,-32053880,-30714620,-29384036,-28063291,-26753687,-25456665,-24173822,-22906909,-21657836,-20428672,-19221638,-18039092,-16883512,-15757467,-14663580,-13604481,-12582756,-11600885,-10661173,-9765687,-8916185,-8114061,-7360289,-6655391,-5999415,-5391933,-4832058,-4318477,-3849500,-3423117,-3037065,-2688893,-2376033,-2095857,-1845738,-1623092,-1425422,-1250341,-1095603,-959106,-838909,-733227,-640435,-559060,-487774,-425385,-370829,-323157,-281528,-245195,-213502,-185867,-161780,-140793,-122512,-106592,-92731,-80665,-70164,-61025,-53074,-46156,-40138,-34904,-30351,-26391,-22947,-19952,-17348,-15083,-13114,-11402,-9913,-8618,-7493,-6514,-5664,-4924,-4281,-3722,-3235,-2813,-2445,-2126,-1848,-1607,-1397,-1214,-1056,-918,-798,-694,-603,-524,-456,-396,-344,-299,-260,-226,-197,-171,-149,-129,-112,-98,-85,-74,-64,-56,-49,-42,-37,-32,-28,-24,-21>>,
  <<-86521748,-85122010,-83722312,-82322660,-80923059,-79523519,-78124048,-76724656,-75325355,-73926160,-72527085,-71128149,-69729373,-68330781,-66932400,-65534262,-64136404,-62738867,-61341699,-59944955,-58548700,-57153006,-55757957,-54363648,-52970191,-51577711,-50186355,-48796289,-47407703,-46020816,-44635878,-43253176,-41873037,-40495833,-39121991,-37751996,-36386398,-35025824,-33670984,-32322679,-30981813,-29649405,-28326593,-27014649,-25714988,-24429175,-23158928,-21906126,-20672808,-19461163,-18273525,-17112349,-15980188,-14879658,-13813392,-12783990,-11793957,-10845640,-9941157,-9082334,-8270643,-7507144,-6792452,-6126710,-5509586,-4940281,-4417566,-3939819,-3505092,-3111164,-2755619,-2435906,-2149404,-1893482,-1665545,-1463074,-1283660,-1125026,-985042,-861732,-753282,-658035,-574488,-501283,-437204,-381161,-332183,-289407,-252071,-219498,-191095,-166336,-144762,-125969,-109602,-95351,-82946,-72149,-62753,-54577,-47464,-41276,-35893,-31211,-27139,-23598,-20518,-17840,-15511,-13486,-11725,-10194,-8863,-7706,-6699,-5824,-5064,-4402,-3827,-3327,-2893>>,
  <<-66752625,-65813869,-64875235,-63936735,-62998383,-62060193,-61122181,-60184364,-59246763,-58309396,-57372289,-56435466,-55498954,-54562786,-53626993,-52691612,-51756685,-50822254,-49888369,-48955082,-48022452,-47090542,-46159421,-45229167,-44299862,-43371598,-42444475,-41518602,-40594099,-39671095,-38749733,-37830168,-36912569,-35997120,-35084022,-34173492,-33265767,-32361103,-31459778,-30562094,-29668375,-28778971,-27894260,-27014649,-26140572,-25272495,-24410914,-23556360,-22709393,-21870608,-21040630,-20220117,-19409755,-18610259,-17822370,-17046848,-16284472,-15536033,-14802329,-14084157,-13382307,-12697553,-12030645,-11382298,-10753186,-10143931,-9555092,-8987161,-8440549,-7915587,-7412513,-6931472,-6472513,-6035587,-5620549,-5227161,-4855092,-4503931,-4173186,-3862298,-3570645,-3297553,-3042307,-2804157,-2582329,-2376033,-2184472,-2006848,-1842370,-1690259,-1549755,-1420117,-1300630,-1190608,-1089393,-996360,-910914,-832495,-760572,-694649,-634260,-578971,-528375,-482094,-439778,-401103,-365767,-333492,-304022,-277120,-252569,-230168,-209733,-191095,-174099,-158602,-144475,-131598,-119862,-109167,-99421>>,
  <<-67261998,-66013594,-64765403,-63517452,-62269774,-61022404,-59775383,-58528758,-57282580,-56036910,-54791815,-53547369,-52303659,-51060782,-49818848,-48577979,-47338316,-46100017,-44863258,-43628242,-42395194,-41164368,-39936051,-38710565,-37488270,-36269571,-35054922,-33844829,-32639859,-31440640,-30247872,-29062332,-27884875,-26716447,-25558083,-24410914,-23276174,-22155195,-21049411,-19960354,-18889650,-17839007,-16810208,-15805086,-14825509,-13873353,-12950469,-12058651,-11199598,-10374880,-9585891,-8833822,-8119620,-7443967,-6807253,-6209570,-5650707,-5130153,-4647118,-4200553,-3789184,-3411539,-3065994,-2750806,-2464154,-2204174,-1968990,-1756744,-1565622,-1393868,-1239805,-1101846,-978496,-868362,-770150,-682671,-604829,-535628,-474157,-419594,-371193,-328285,-290264,-256591,-226780,-200398,-177057,-156414,-138162,-122026,-107764,-95162,-84027,-74190,-65501,-57827,-51049,-45064,-39779,-35113,-30994,-27357,-24146,-21312,-18810,-16602,-14652,-12932,-11413,-10073,-8890,-7846,-6924,-6111,-5393,-4759,-4200,-3707,-3271,-2887,-2548>>,
  <<-54045064,-52552338,-51060782,-49570584,-48081961,-46595162,-45110477,-43628242,-42148843,-40672723,-39200398,-37732455,-36269571,-34812522,-33362193,-31919594,-30485874,-29062332,-27650436,-26251832,-24868362,-23502066,-22155195,-20830211,-19529776,-18256744,-17014133,-15805086,-14632825,-13500585,-12411539,-11368710,-10374880,-9432489,-8543552,-7709570,-6931472,-6209570,-5543552,-4932489,-4374880,-3868710,-3411539,-3000585,-2632825,-2305086,-2014133,-1756744,-1529776,-1330211,-1155195,-1002066,-868362,-751832,-650436,-562332,-485874,-419594,-362193,-312522,-269571,-232455,-200398,-172723,-148843,-128242,-110477,-95162,-81961,-70584,-60782,-52338,-45064,-38799,-33404,-28758,-24757,-21312,-18346,-15793,-13594,-11702,-10073,-8670,-7463,-6424,-5529,-4759,-4097,-3526,-3035,-2612,-2248,-1935,-1666,-1434,-1234,-1062,-914,-787,-677,-583,-502,-432,-372,-320,-275,-237,-204,-176,-151,-130,-112,-96,-83,-71,-61,-53,-46,-39,-34>>,
  <<-40574444,-39592615,-38612659,-37634764,-36659137,-35686004,-34715613,-33748235,-32784164,-31823723,-30867260,-29915157,-28967826,-28025713,-27089301,-26159109,-25235696,-24319661,-23411644,-22512326,-21622430,-20742721,-19874000,-19017109,-18172923,-17342346,-16526307,-15725755,-14941648,-14174946,-13426603,-12697553,-11988699,-11300901,-10634965,-9991627,-9371545,-8775281,-8203300,-7655952,-7133472,-6635971,-6163438,-5715735,-5292604,-4893672,-4518454,-4166367,-3836737,-3528812,-3241776,-2974758,-2726848,-2497107,-2284580,-2088306,-1907328,-1740701,-1587500,-1446825,-1317810,-1199620,-1091460,-992574,-902247,-819808,-744623,-676103,-613695,-556889,-505210,-458217,-415504,-376699,-341456,-309460,-280419,-254070,-230168,-208491,-188837,-171019,-154870,-140235,-126974,-114960,-104077,-94219,-85291,-77206,-69885,-63255,-57253,-51819,-46899,-42445,-38414,-34765,-31462,-28472,-25766,-23317,-21100,-19094,-17279,-15636,-14149,-12803,-11586,-10484,-9486,-8584,-7768,-7029,-6360,-5755,-5207,-4712,-4264,-3858,-3491>>,
  <<-58109989,-57312483,-56515184,-55718108,-54921276,-54124706,-53328420,-52532442,-51736798,-50941514,-50146620,-49352149,-48558134,-47764615,-46971630,-46179224,-45387443,-44596340,-43805969,-43016389,-42227665,-41439866,-40653066,-39867346,-39082793,-38299498,-37517564,-36737098,-35958216,-35181042,-34405711,-33632366,-32861161,-32092261,-31325842,-30562094,-29801217,-29043426,-28288951,-27538035,-26790936,-26047930,-25309305,-24575371,-23846449,-23122882,-22405026,-21693258,-20987967,-20289562,-19598467,-18915119,-18239969,-17573482,-16916132,-16268400,-15630775,-15003748,-14387813,-13783457,-13191164,-12611407,-12044644,-11491314,-10951838,-10426605,-9915978,-9420281,-8939805,-8474795,-8025455,-7591938,-7174352,-6772752,-6387144,-6017481,-5663668,-5325559,-5002960,-4695634,-4403300,-4125640,-3862298,-3612889,-3377000,-3154195,-2944018,-2746000,-2559658,-2384506,-2220050,-2065800,-1921266,-1785964,-1659418,-1541163,-1430745,-1327722,-1231668,-1142173,-1058842,-981296,-909175,-842133,-779845,-721999,-668301,-618475,-572259,-529405,-489682,-452873,-418773,-387191,-357949,-330878,-305824,-282640,-261191,-241350,-223000>>,
  <<-94750767,-93500870,-92250985,-91001117,-89751265,-88501434,-87251625,-86001841,-84752086,-83502364,-82252678,-81003035,-79753439,-78503897,-77254415,-76005003,-74755669,-73506424,-72257279,-71008248,-69759345,-68510589,-67261998,-66013594,-64765403,-63517452,-62269774,-61022404,-59775383,-58528758,-57282580,-56036910,-54791815,-53547369,-52303659,-51060782,-49818848,-48577979,-47338316,-46100017,-44863258,-43628242,-42395194,-41164368,-39936051,-38710565,-37488270,-36269571,-35054922,-33844829,-32639859,-31440640,-30247872,-29062332,-27884875,-26716447,-25558083,-24410914,-23276174,-22155195,-21049411,-19960354,-18889650,-17839007,-16810208,-15805086,-14825509,-13873353,-12950469,-12058651,-11199598,-10374880,-9585891,-8833822,-8119620,-7443967,-6807253,-6209570,-5650707,-5130153,-4647118,-4200553,-3789184,-3411539,-3065994,-2750806,-2464154,-2204174,-1968990,-1756744,-1565622,-1393868,-1239805,-1101846,-978496,-868362,-770150,-682671,-604829,-535628,-474157,-419594,-371193,-328285,-290264,-256591,-226780,-200398,-177057,-156414,-138162,-122026,-107764,-95162,-84027,-74190,-65501,-57827,-51049,-45064,-39779>>,
  <<-48230745,-47487007,-46743752,-46001017,-45258842,-44517269,-43776345,-43036119,-42296643,-41557974,-40820174,-40083307,-39347443,-38612659,-37879033,-37146653,-36415610,-35686004,-34957940,-34231530,-33506895,-32784164,-32063474,-31344971,-30628810,-29915157,-29204187,-28496088,-27791056,-27089301,-26391044,-25696518,-25005971,-24319661,-23637860,-22960853,-22288940,-21622430,-20961650,-20306935,-19658635,-19017109,-18382730,-17755876,-17136936,-16526307,-15924389,-15331585,-14748303,-14174946,-13611917,-13059609,-12518412,-11988699,-11470832,-10965153,-10471985,-9991627,-9524353,-9070404,-8629994,-8203300,-7790465,-7391593,-7006753,-6635971,-6279236,-5936496,-5607661,-5292604,-4991161,-4703133,-4428289,-4166367,-3917079,-3680111,-3455128,-3241776,-3039685,-2848473,-2667747,-2497107,-2336151,-2184472,-2041665,-1907328,-1781063,-1662479,-1551191,-1446825,-1349017,-1257412,-1171670,-1091460,-1016465,-946384,-880924,-819808,-762772,-709565,-659948,-613695,-570592,-530437,-493038,-458217,-425802,-395636,-367567,-341456,-317171,-294587,-273590,-254070,-235927,-219065,-203396,-188837,-175311,-162746,-151075>>,
  <<-64815326,-63816937,-62818716,-61820683,-60822856,-59825256,-58827909,-57830840,-56834077,-55837655,-54841607,-53845972,-52850795,-51856122,-50862006,-49868505,-48875683,-47883609,-46892362,-45902027,-44912697,-43924476,-42937477,-41951827,-40967661,-39985132,-39004405,-38025661,-37049101,-36074942,-35103424,-34134807,-33169376,-32207442,-31249344,-30295450,-29346158,-28401902,-27463149,-26530404,-25604210,-24685149,-23773846,-22870964,-21977210,-21093332,-20220117,-19358391,-18509016,-17672884,-16850917,-16044056,-15253255,-14479477,-13723677,-12986800,-12269761,-11573441,-10898667,-10246207,-9616749,-9010896,-8429153,-7871917,-7339470,-6831972,-6349461,-5891850,-5458929,-5050370,-4665731,-4304467,-3965940,-3649428,-3354138,-3079221,-2823779,-2586884,-2367587,-2164927,-1977945,-1805689,-1647227,-1501648,-1368071,-1245648,-1133569,-1031062,-937395,-851879,-773865,-702747,-637958,-578971,-525295,-476478,-432100,-391775,-355147,-321888,-291698,-264303,-239450,-216908,-196468,-177937,-161140,-145917,-132122,-119624,-108302,-98046,-88757,-80344,-72726,-65828,-59582,-53928,-48808,-44174,-39978>>,
  <<-44114123,-43186079,-42259197,-41333588,-40409374,-39486686,-38565671,-37646485,-36729301,-35814306,-34901703,-33991715,-33084581,-32180562,-31279940,-30383022,-29490137,-28601641,-27717917,-26839377,-25966461,-25099642,-24239424,-23386341,-22540962,-21703887,-20875749,-20057210,-19248963,-18451729,-17666251,-16893296,-16133643,-15388088,-14657427,-13942456,-13243964,-12562720,-11899468,-11254916,-10629728,-10024513,-9439819,-8876121,-8333816,-7813215,-7314539,-6837914,-6383368,-5950835,-5540149,-5151053,-4783202,-4436166,-4109439,-3802449,-3514564,-3245100,-2993334,-2758511,-2539853,-2336567,-2147857,-1972926,-1810983,-1661254,-1522981,-1395430,-1277890,-1169681,-1070152,-978682,-894686,-817607,-746923,-682143,-622808,-568489,-518785,-473324,-431762,-393778,-359076,-327382,-298444,-272029,-247923,-225929,-205867,-187569,-170884,-155671,-141803,-129163,-117643,-107144,-97579,-88863,-80922,-73689,-67100,-61098,-55632,-50653,-46119,-41990,-38230,-34806,-31689,-28850,-26265,-23911,-21768,-19817,-18041,-16424,-14951,-13611,-12390,-11279,-10268>>,
  <<-75605207,-74205990,-72806889,-71407924,-70009115,-68610484,-67212058,-65813869,-64415951,-63018346,-61621100,-60224267,-58827909,-57432096,-56036910,-54642445,-53248808,-51856122,-50464529,-49074190,-47685291,-46298046,-44912697,-43529523,-42148843,-40771019,-39396468,-38025661,-36659137,-35297504,-33941456,-32591775,-31249344,-29915157,-28590328,-27276103,-25973865,-24685149,-23411644,-22155195,-20917810,-19701648,-18509016,-17342346,-16204174,-15097107,-14023779,-12986800,-11988699,-11031860,-10118454,-9250370,-8429153,-7655952,-6931472,-6255952,-5629153,-5050370,-4518454,-4031860,-3588699,-3186800,-2823779,-2497107,-2204174,-1942346,-1709016,-1501648,-1317810,-1155195,-1011644,-885149,-773865,-676103,-590328,-515157,-449344,-391775,-341456,-297504,-259137,-225661,-196468,-171019,-148843,-129523,-112697,-98046,-85291,-74190,-64529,-56122,-48808,-42445,-36910,-32096,-27909,-24267,-21100,-18346,-15951,-13869,-12058,-10484,-9115,-7924,-6889,-5990,-5207,-4527,-3936,-3422,-2975,-2586,-2248,-1955,-1699,-1477,-1284,-1117,-971>>,
  <<-48826061,-47586145,-46347559,-45110477,-43875096,-42641635,-41410343,-40181499,-38955419,-37732455,-36513002,-35297504,-34086457,-32880414,-31679991,-30485874,-29298822,-28119676,-26949362,-25788897,-24639395,-23502066,-22378223,-21269280,-20176751,-19102242,-18047446,-17014133,-16004127,-15019291,-14061501,-13132617,-12234446,-11368710,-10537007,-9740770,-8981233,-8259394,-7575990,-6931472,-6325990,-5759394,-5231233,-4740770,-4287007,-3868710,-3484446,-3132617,-2811501,-2519291,-2254127,-2014133,-1797446,-1602242,-1426751,-1269280,-1128223,-1002066,-889395,-788897,-699362,-619676,-548822,-485874,-429991,-380414,-336457,-297504,-263002,-232455,-205419,-181499,-160343,-141635,-125096,-110477,-97559,-86145,-76061,-67153,-59286,-52338,-46202,-40784,-36001,-31777,-28049,-24757,-21851,-19286,-17022,-15023,-13259,-11702,-10328,-9115,-8044,-7099,-6265,-5529,-4880,-4306,-3801,-3354,-2960,-2612,-2305,-2034,-1795,-1584,-1398,-1234,-1089,-961,-848,-748,-661,-583,-514,-454,-401>>,
  <<-38013929,-37095923,-36180029,-35266444,-34355382,-33447076,-32541778,-31639762,-30741324,-29846785,-28956489,-28070808,-27190143,-26314923,-25445607,-24582686,-23726682,-22878152,-22037681,-21205890,-20383430,-19570981,-18769254,-17978983,-17200926,-16435857,-15684567,-14947853,-14226511,-13521334,-12833100,-12162564,-11510449,-10877439,-10264166,-9671202,-9099053,-8548149,-8018835,-7511368,-7025914,-6562539,-6121215,-5701816,-5304121,-4927819,-4572513,-4237728,-3922916,-3627468,-3350720,-3091964,-2850456,-2625427,-2416088,-2221643,-2041296,-1874251,-1719729,-1576963,-1445210,-1323749,-1211887,-1108962,-1014341,-927424,-847642,-774461,-707377,-645917,-589641,-538137,-491022,-447940,-408562,-372581,-339715,-309703,-282306,-257301,-234485,-213671,-194686,-177374,-161588,-147197,-134079,-122123,-111227,-101298,-92252,-84010,-76502,-69662,-63432,-57757,-52589,-47882,-43596,-39692,-36138,-32901,-29953,-27270,-24826,-22601,-20576,-18731,-17052,-15524,-14132,-12865,-11711,-10661,-9705,-8835,-8042,-7321,-6665,-6067,-5523>>,
  <<-39985132,-39004405,-38025661,-37049101,-36074942,-35103424,-34134807,-33169376,-32207442,-31249344,-30295450,-29346158,-28401902,-27463149,-26530404,-25604210,-24685149,-23773846,-22870964,-21977210,-21093332,-20220117,-19358391,-18509016,-17672884,-16850917,-16044056,-15253255,-14479477,-13723677,-12986800,-12269761,-11573441,-10898667,-10246207,-9616749,-9010896,-8429153,-7871917,-7339470,-6831972,-6349461,-5891850,-5458929,-5050370,-4665731,-4304467,-3965940,-3649428,-3354138,-3079221,-2823779,-2586884,-2367587,-2164927,-1977945,-1805689,-1647227,-1501648,-1368071,-1245648,-1133569,-1031062,-937395,-851879,-773865,-702747,-637958,-578971,-525295,-476478,-432100,-391775,-355147,-321888,-291698,-264303,-239450,-216908,-196468,-177937,-161140,-145917,-132122,-119624,-108302,-98046,-88757,-80344,-72726,-65828,-59582,-53928,-48808,-44174,-39978,-36181,-32743,-29632,-26816,-24267,-21960,-19873,-17983,-16273,-14726,-13325,-12058,-10911,-9873,-8934,-8084,-7315,-6619,-5990,-5420,-4904,-4438,-4015,-3633,-3288>>,
  <<-101250401,-100000454,-98750514,-97500583,-96250661,-95000748,-93750848,-92500961,-91251089,-90001234,-88751398,-87501584,-86251795,-85002034,-83752305,-82502612,-81252960,-80003354,-78753801,-77504306,-76254880,-75005529,-73756265,-72507099,-71258044,-70009115,-68760328,-67511702,-66263259,-65015023,-63767022,-62519286,-61271851,-60024757,-58778049,-57531777,-56286001,-55040784,-53796202,-52552338,-51309286,-50067153,-48826061,-47586145,-46347559,-45110477,-43875096,-42641635,-41410343,-40181499,-38955419,-37732455,-36513002,-35297504,-34086457,-32880414,-31679991,-30485874,-29298822,-28119676,-26949362,-25788897,-24639395,-23502066,-22378223,-21269280,-20176751,-19102242,-18047446,-17014133,-16004127,-15019291,-14061501,-13132617,-12234446,-11368710,-10537007,-9740770,-8981233,-8259394,-7575990,-6931472,-6325990,-5759394,-5231233,-4740770,-4287007,-3868710,-3484446,-3132617,-2811501,-2519291,-2254127,-2014133,-1797446,-1602242,-1426751,-1269280,-1128223,-1002066,-889395,-788897,-699362,-619676,-548822,-485874,-429991,-380414,-336457,-297504,-263002,-232455,-205419,-181499,-160343,-141635,-125096,-110477,-97559,-86145,-76061>>,
  <<-85751887,-84502139,-83252424,-82002746,-80753112,-79503526,-78253995,-77004527,-75755130,-74505813,-73256586,-72007463,-70758456,-69509582,-68260857,-67012302,-65763938,-64515793,-63267894,-62020274,-60772970,-59526025,-58279485,-57033404,-55787843,-54542871,-53298565,-52055014,-50812316,-49570584,-48329945,-47090542,-45852536,-44616109,-43381468,-42148843,-40918495,-39690717,-38465838,-37244228,-36026302,-34812522,-33603406,-32399533,-31201546,-30010160,-28826165,-27650436,-26483934,-25327715,-24182931,-23050833,-21932775,-20830211,-19744691,-18677860,-17631442,-16607230,-15607067,-14632825,-13686376,-12769564,-11884167,-11031860,-10214182,-9432489,-8687926,-7981389,-7313501,-6684596,-6094704,-5543552,-5030574,-4554925,-4115508,-3711007,-3339916,-3000585,-2691252,-2410085,-2155213,-1924765,-1716887,-1529776,-1361692,-1210975,-1076053,-955455,-847805,-751832,-666365,-590328,-522743,-462717,-409443,-362193,-320308,-283198,-250334,-221242,-195498,-172723,-152582,-134773,-119031,-105118,-92823,-81961,-72365,-63889,-56403,-49792,-43954,-38799,-34248,-30230,-26682,-23551,-20786,-18346,-16192>>,
  <<-92960918,-91561056,-90161214,-88761397,-87361607,-85961848,-84562126,-83162445,-81762813,-80363235,-78963722,-77564281,-76164924,-74765664,-73366514,-71967493,-70568618,-69169913,-67771402,-66373114,-64975083,-63577348,-62179952,-60782947,-59386391,-57990351,-56594904,-55200138,-53806156,-52413074,-51021025,-49630164,-48240665,-46852731,-45466592,-44082512,-42700793,-41321780,-39945867,-38573502,-37205195,-35841528,-34483157,-33130829,-31785385,-30447774,-29119060,-27800435,-26493227,-25198909,-23919106,-22655603,-21410341,-20185422,-18983092,-17805738,-16655857,-15536033,-14448893,-13397065,-12383117,-11409500,-10478477,-9592058,-8751933,-7959415,-7215391,-6520289,-5874061,-5276185,-4725687,-4221173,-3760885,-3342756,-2964481,-2623580,-2317467,-2043512,-1799092,-1581638,-1388672,-1217836,-1066909,-933822,-816665,-713687,-623291,-544036,-474620,-413880,-360772,-314373,-273860,-238505,-207668,-180781,-157348,-136932,-119149,-103664,-90182,-78446,-68233,-59345,-51612,-44885,-39032,-33942,-29514,-25663,-22314,-19402,-16869,-14667,-12752,-11087,-9639,-8381,-7286,-6335,-5507>>,
  <<-75005529,-73756265,-72507099,-71258044,-70009115,-68760328,-67511702,-66263259,-65015023,-63767022,-62519286,-61271851,-60024757,-58778049,-57531777,-56286001,-55040784,-53796202,-52552338,-51309286,-50067153,-48826061,-47586145,-46347559,-45110477,-43875096,-42641635,-41410343,-40181499,-38955419,-37732455,-36513002,-35297504,-34086457,-32880414,-31679991,-30485874,-29298822,-28119676,-26949362,-25788897,-24639395,-23502066,-22378223,-21269280,-20176751,-19102242,-18047446,-17014133,-16004127,-15019291,-14061501,-13132617,-12234446,-11368710,-10537007,-9740770,-8981233,-8259394,-7575990,-6931472,-6325990,-5759394,-5231233,-4740770,-4287007,-3868710,-3484446,-3132617,-2811501,-2519291,-2254127,-2014133,-1797446,-1602242,-1426751,-1269280,-1128223,-1002066,-889395,-788897,-699362,-619676,-548822,-485874,-429991,-380414,-336457,-297504,-263002,-232455,-205419,-181499,-160343,-141635,-125096,-110477,-97559,-86145,-76061,-67153,-59286,-52338,-46202,-40784,-36001,-31777,-28049,-24757,-21851,-19286,-17022,-15023,-13259,-11702,-10328,-9115,-8044,-7099,-6265,-5529>>,
  <<-75005529,-74006111,-73006753,-72007463,-71008248,-70009115,-69010073,-68011132,-67012302,-66013594,-65015023,-64016602,-63018346,-62020274,-61022404,-60024757,-59027357,-58030230,-57033404,-56036910,-55040784,-54045064,-53049792,-52055014,-51060782,-50067153,-49074190,-48081961,-47090542,-46100017,-45110477,-44122026,-43134773,-42148843,-41164368,-40181499,-39200398,-38221242,-37244228,-36269571,-35297504,-34328285,-33362193,-32399533,-31440640,-30485874,-29535628,-28590328,-27650436,-26716447,-25788897,-24868362,-23955455,-23050833,-22155195,-21269280,-20393868,-19529776,-18677860,-17839007,-17014133,-16204174,-15410085,-14632825,-13873353,-13132617,-12411539,-11711007,-11031860,-10374880,-9740770,-9130153,-8543552,-7981389,-7443967,-6931472,-6443967,-5981389,-5543552,-5130153,-4740770,-4374880,-4031860,-3711007,-3411539,-3132617,-2873353,-2632825,-2410085,-2204174,-2014133,-1839007,-1677860,-1529776,-1393868,-1269280,-1155195,-1050833,-955455,-868362,-788897,-716447,-650436,-590328,-535628,-485874,-440640,-399533,-362193,-328285,-297504,-269571,-244228,-221242,-200398,-181499,-164368,-148843,-134773,-122026,-110477>>,
  <<-90251204,-89001364,-87751545,-86501751,-85251984,-84002248,-82752548,-81502887,-80253271,-79003707,-77754200,-76504759,-75255393,-74006111,-72756924,-71507846,-70258890,-69010073,-67761413,-66512932,-65264652,-64016602,-62768810,-61521312,-60274146,-59027357,-57780994,-56535113,-55289779,-54045064,-52801049,-51557827,-50315501,-49074190,-47834027,-46595162,-45357764,-44122026,-42888162,-41656414,-40427057,-39200398,-37976780,-36756591,-35540264,-34328285,-33121193,-31919594,-30724157,-29535628,-28354829,-27182671,-26020150,-24868362,-23728496,-22601846,-21489805,-20393868,-19315622,-18256744,-17218990,-16204174,-15214154,-14250806,-13315994,-12411539,-11539184,-10700553,-9897118,-9130153,-8400707,-7709570,-7057253,-6443967,-5869620,-5333822,-4835891,-4374880,-3949598,-3558651,-3200469,-2873353,-2575509,-2305086,-2060208,-1839007,-1639650,-1460354,-1299411,-1155195,-1026174,-910914,-808083,-716447,-634875,-562332,-497872,-440640,-389859,-344829,-304922,-269571,-238270,-210565,-186051,-164368,-145194,-128242,-113258,-100017,-88316,-77979,-68848,-60782,-53659,-47369,-41815,-36910,-32580,-28758,-25383>>,
  <<-75005529,-73756265,-72507099,-71258044,-70009115,-68760328,-67511702,-66263259,-65015023,-63767022,-62519286,-61271851,-60024757,-58778049,-57531777,-56286001,-55040784,-53796202,-52552338,-51309286,-50067153,-48826061,-47586145,-46347559,-45110477,-43875096,-42641635,-41410343,-40181499,-38955419,-37732455,-36513002,-35297504,-34086457,-32880414,-31679991,-30485874,-29298822,-28119676,-26949362,-25788897,-24639395,-23502066,-22378223,-21269280,-20176751,-19102242,-18047446,-17014133,-16004127,-15019291,-14061501,-13132617,-12234446,-11368710,-10537007,-9740770,-8981233,-8259394,-7575990,-6931472,-6325990,-5759394,-5231233,-4740770,-4287007,-3868710,-3484446,-3132617,-2811501,-2519291,-2254127,-2014133,-1797446,-1602242,-1426751,-1269280,-1128223,-1002066,-889395,-788897,-699362,-619676,-548822,-485874,-429991,-380414,-336457,-297504,-263002,-232455,-205419,-181499,-160343,-141635,-125096,-110477,-97559,-86145,-76061,-67153,-59286,-52338,-46202,-40784,-36001,-31777,-28049,-24757,-21851,-19286,-17022,-15023,-13259,-11702,-10328,-9115,-8044,-7099,-6265,-5529>>
  >>

(***************************************************************************)
(* Model configuration, src/scorer.js.                                     *)
(***************************************************************************)
DichotomyNames == <<"E-I", "S-N", "T-F", "J-P">>

POSITIVE_POLE_FACETS ==
  ("E-I" :> <<"Initiating", "Expressive", "Gregarious", "Active", "Enthusiastic">>) @@
  ("S-N" :> <<"Concrete", "Realistic", "Practical", "Experiential", "Traditional">>) @@
  ("T-F" :> <<"Logical", "Reasonable", "Questioning", "Critical", "Tough">>) @@
  ("J-P" :> <<"Systematic", "Planful", "Early Starting", "Scheduled", "Methodical">>)

NEGATIVE_POLE_FACETS ==
  ("E-I" :> <<"Receiving", "Contained", "Intimate", "Reflective", "Quiet">>) @@
  ("S-N" :> <<"Abstract", "Imaginative", "Conceptual", "Theoretical", "Original">>) @@
  ("T-F" :> <<"Empathetic", "Compassionate", "Accommodating", "Accepting", "Tender">>) @@
  ("J-P" :> <<"Casual", "Open-ended", "Pressure Prompted", "Spontaneous", "Emergent">>)

\* DICHOTOMY_CONFIG_Literal without the spread of NEGATIVE_POLE_FACETS.
DICHOTOMY_CONFIG_PositiveFacetsOnly ==
  ("E-I" :> [poles |-> <<"E", "I">>, tieBreaker |-> "I",
             facets |-> POSITIVE_POLE_FACETS["E-I"]]) @@
  ("S-N" :> [poles |-> <<"S", "N">>, tieBreaker |-> "N",
             facets |-> POSITIVE_POLE_FACETS["S-N"]]) @@
  ("T-F" :> [poles |-> <<"T", "F">>, tieBreaker |-> "F",
             facets |-> POSITIVE_POLE_FACETS["T-F"]]) @@
  ("J-P" :> [poles |-> <<"J", "P">>, tieBreaker |-> "P",
             facets |-> POSITIVE_POLE_FACETS["J-P"]])

\* The object literal that DICHOTOMY_CONFIG is initialised with.
DICHOTOMY_CONFIG_Literal ==
  ("E-I" :> [poles |-> <<"E", "I">>, tieBreaker |-> "I",
             facets |-> POSITIVE_POLE_FACETS["E-I"] \o NEGATIVE_POLE_FACETS["E-I"]]) @@
  ("S-N" :> [poles |-> <<"S", "N">>, tieBreaker |-> "N",
             facets |-> POSITIVE_POLE_FACETS["S-N"] \o NEGATIVE_POLE_FACETS["S-N"]]) @@
  ("T-F" :> [poles |-> <<"T", "F">>, tieBreaker |-> "F",
             facets |-> POSITIVE_POLE_FACETS["T-F"] \o NEGATIVE_POLE_FACETS["T-F"]]) @@
  ("J-P" :> [poles |-> <<"J", "P">>, tieBreaker |-> "P",
             facets |-> POSITIVE_POLE_FACETS["J-P"] \o NEGATIVE_POLE_FACETS["J-P"]])

\* Object.values(DICHOTOMY_CONFIG).flatMap(d => d.facets)
ALL_FACETS ==
  DICHOTOMY_CONFIG["E-I"].facets \o DICHOTOMY_CONFIG["S-N"].facets \o
  DICHOTOMY_CONFIG["T-F"].facets \o DICHOTOMY_CONFIG["J-P"].facets

\* The elements of a sequence.
Range(s) == {s[i] : i \in 1..Len(s)}

\* The 0-based indices 0, 1, ..., n-1 in ascending order.
IndexSeq(n) == [i \in 1..n |-> i - 1]

\* The loop that fills facetToQuestionMap when the module loads: facet name
\* -> the 0-based indices of the items of the table whose primaryFacet it
\* is, in ascending order; facets without items have no entry.
buildFacetToQuestionMap(parameters) ==
  [facetName \in {parameters[i].primaryFacet : i \in 1..Len(parameters)} |->
     SelectSeq(IndexSeq(Len(parameters)),
               LAMBDA index : parameters[index + 1].primaryFacet = facetName)]

(***************************************************************************)
(* The question bank (questions.json) is data outside the source tree: one *)
(* question per item, numbered from 1, in the dichotomy of its item, with  *)
(* two options A and B of which one carries each pole.  Which option       *)
(* carries the first pole alternates with the question number.             *)
(***************************************************************************)
QuestionBank ==
  [qIndex \in 0..(Len(itemParameterMatrix) - 1) |->
     LET dichotomy == itemParameterMatrix[qIndex + 1].dichotomy
         poles     == DICHOTOMY_CONFIG_Literal[dichotomy].poles
     IN [number    |-> qIndex + 1,
         dichotomy |-> dichotomy,
         options   |-> IF qIndex % 2 = 0
                       THEN [A |-> [pole |-> poles[1]], B |-> [pole |-> poles[2]]]
                       ELSE [A |-> [pole |-> poles[2]], B |-> [pole |-> poles[1]]]]]

\* The scoreKey of an option of the question bank: 1 for the option of the
\* first pole of the question's dichotomy, 0 for the other option.
scoreKey(qIndex, choice) ==
  LET question == QuestionBank[qIndex]
  IN IF question.options[choice].pole
          = DICHOTOMY_CONFIG_Literal[question.dichotomy].poles[1]
     THEN 1 ELSE 0

\* An answer is the chosen option key; Null is an omitted question.
Null == "null"

\* What reading a key that an object does not have gives.
Undefined == "undefined"

\* answers[qIndex + 1], read by question number.
Answer(answs, questionNumber) ==
  IF questionNumber \in DOMAIN answs THEN answs[questionNumber] ELSE Undefined

\* !answer
IsOmitted(answer) == answer \in {Null, Undefined}
Choices == {"A", "B"}

(***************************************************************************)
(* The theta grid of findBestThetaForFacet, in hundredths.                 *)
(***************************************************************************)
ThetaMin == -300
ThetaMax == 300
ThetaStep == 5

\* Stands for -Infinity: below every sum of log-likelihood terms.
NegInfinity == -2000000000

\* Math.log(probability(theta, 0, b)) in units of 1/LogScale: with a = 0 the
\* probability is 1 / (1 + e^0) = 1/2 at every theta.
LogOfHalf == -6931472

\* Math.log(probability(theta, a, b)) in units of 1/LogScale, for a record
\* of the table as shipped and for a record whose a is 0.
LogProbability(qIndex, theta) ==
  IF itemParameters[qIndex + 1].a = 0
  THEN LogOfHalf
  ELSE LogProbabilityTable[qIndex + 1][((theta - ThetaMin) \div ThetaStep) + 1]

\* Math.log(1 - probability(theta, a, b)): since P / (1 - P) = e^(a(theta-b)),
\* ln(1 - P) = ln(P) - a * (theta - b).  a * (theta - b) is in units of
\* 1/10000.  Neither P nor 1 - P is ever 0 on the grid, so the 1e-9
\* fallback of the code is never taken.
LogComplement(qIndex, theta) ==
  LET params == itemParameters[qIndex + 1]
  IN LogProbability(qIndex, theta)
       - params.a * (theta - params.b) * (LogScale \div 10000)

\* ObservedResponse with the comparison of the poles inverted.
ObservedResponse_Inverted(qIndex, answs) ==
  LET params         == itemParameters[qIndex + 1]
      answer         == Answer(answs, qIndex + 1)
      questionData   == questionsData[qIndex]
      userChoicePole == questionData.options[answer].pole
      positivePole   == DICHOTOMY_CONFIG[params.dichotomy].poles[1]
  IN [qIndex |-> qIndex, endorsesPositive |-> (userChoicePole # positivePole)]

\* ObservedResponse in which option A counts as the positive pole of every
\* question.
ObservedResponse_ByOptionKey(qIndex, answs) ==
  LET answer == Answer(answs, qIndex + 1)
  IN [qIndex |-> qIndex, endorsesPositive |-> (answer = "A")]

\* What questionIndices.forEach reads for one item: nothing changes these
\* values during a call, so they are read once per item instead of once per
\* item and theta.  endorsesPositive is userChoicePole === positivePole.
ObservedResponse(qIndex, answs) ==
  LET params         == itemParameters[qIndex + 1]
      answer         == Answer(answs, qIndex + 1)
      questionData   == questionsData[qIndex]
      userChoicePole == questionData.options[answer].pole
      positivePole   == DICHOTOMY_CONFIG[params.dichotomy].poles[1]
  IN [qIndex |-> qIndex, endorsesPositive |-> (userChoicePole = positivePole)]

\* AnsweredIndices in which a null ends the scan of the facet, as a break
\* would, and only a missing key is passed over.
AnsweredIndices_NullEndsScan(questionIndices, answs) ==
  LET nulls   == {i \in 1..Len(questionIndices) :
                    Answer(answs, questionIndices[i] + 1) = Null}
      scanned == IF nulls = {} THEN questionIndices
                 ELSE SubSeq(questionIndices, 1,
                             (CHOOSE i \in nulls : \A k \in nulls : i <= k) - 1)
  IN SelectSeq(scanned, LAMBDA qIndex : ~IsOmitted(Answer(answs, qIndex + 1)))

\* if (!answer) return;  -- the items of the facet that have an answer.
AnsweredIndices(questionIndices, answs) ==
  SelectSeq(questionIndices, LAMBDA qIndex : ~IsOmitted(Answer(answs, qIndex + 1)))

ObservedResponses(questionIndices, answs) ==
  LET answered == AnsweredIndices(questionIndices, answs)
  IN [i \in 1..Len(answered) |-> ObservedResponse(answered[i], answs)]

\* The log-likelihood one answered item adds at theta.
LogLikelihoodTerm(response, theta) ==
  IF response.endorsesPositive
  THEN LogProbability(response.qIndex, theta)
  ELSE LogComplement(response.qIndex, theta)

\* currentLogLikelihood after the forEach, from item i on.
RECURSIVE CurrentLogLikelihood(_, _, _)
CurrentLogLikelihood(responses, i, theta) ==
  IF i > Len(responses)
  THEN 0
  ELSE LogLikelihoodTerm(responses[i], theta)
         + CurrentLogLikelihood(responses, i + 1, theta)

\* IsBetterFit with >= in the place of >.
IsBetterFit_OrEqual(currentLogLikelihood, maxLogLikelihood) ==
  currentLogLikelihood >= maxLogLikelihood

\* The comparison that decides whether the current theta replaces the best.
IsBetterFit(currentLogLikelihood, maxLogLikelihood) ==
  currentLogLikelihood > maxLogLikelihood

\* ThetaIteration that records bestTheta but never maxLogLikelihood.
ThetaIteration_MaxNotRecorded(responses, loop) ==
  LET currentLogLikelihood == CurrentLogLikelihood(responses, 1, loop.theta)
  IN IF IsBetterFit(currentLogLikelihood, loop.maxLogLikelihood)
     THEN [theta            |-> loop.theta + ThetaStep,
           bestTheta        |-> loop.theta,
           maxLogLikelihood |-> loop.maxLogLikelihood]
     ELSE [loop EXCEPT !.theta = @ + ThetaStep]

\* The body of the theta loop.  loop holds the loop variable theta and the
\* locals bestTheta and maxLogLikelihood; the result holds them after the
\* iteration and the increment theta += 0.05.
ThetaIteration(responses, loop) ==
  LET currentLogLikelihood == CurrentLogLikelihood(responses, 1, loop.theta)
  IN IF IsBetterFit(currentLogLikelihood, loop.maxLogLikelihood)
     THEN [theta            |-> loop.theta + ThetaStep,
           bestTheta        |-> loop.theta,
           maxLogLikelihood |-> currentLogLikelihood]
     ELSE [loop EXCEPT !.theta = @ + ThetaStep]

\* for (let theta = -3.0; theta <= 3.0; theta += 0.05) { ... }, from the
\* state loop up to and including theta = upTo: the iterations in ascending
\* order of theta.  A range of more than one iteration is run as its lower
\* part followed by its upper part, which keeps the nesting shallow.
RECURSIVE ThetaLoop(_, _, _)
ThetaLoop(responses, loop, upTo) ==
  IF loop.theta > upTo
  THEN loop
  ELSE IF loop.theta = upTo
  THEN ThetaIteration(responses, loop)
  ELSE LET middle == loop.theta
                       + ((upTo - loop.theta) \div (2 * ThetaStep)) * ThetaStep
       IN ThetaLoop(responses, ThetaLoop(responses, loop, middle), upTo)

\* findBestThetaForFacet with maxLogLikelihood starting from 0 in the place
\* of -Infinity.
findBestThetaForFacet_MaxFromZero(facetName, answs) ==
  LET questionIndices == IF facetName \in DOMAIN facetToQuestionMap
                         THEN facetToQuestionMap[facetName]
                         ELSE <<>>
  IN IF Len(questionIndices) = 0
     THEN 0
     ELSE ThetaLoop(ObservedResponses(questionIndices, answs),
                    [theta            |-> ThetaMin,
                     bestTheta        |-> 0,
                     maxLogLikelihood |-> 0],
                    ThetaMax).bestTheta

findBestThetaForFacet(facetName, answs) ==
  LET questionIndices == IF facetName \in DOMAIN facetToQuestionMap
                         THEN facetToQuestionMap[facetName]
                         ELSE <<>>
  IN IF Len(questionIndices) = 0
     THEN 0
     ELSE ThetaLoop(ObservedResponses(questionIndices, answs),
                    [theta            |-> ThetaMin,
                     bestTheta        |-> 0,
                     maxLogLikelihood |-> NegInfinity],
                    ThetaMax).bestTheta

(***************************************************************************)
(* Number conversions.  A real is the quotient n / d of an integer number  *)
(* of hundredths n by a positive integer d.                                *)
(***************************************************************************)
Abs(n) == IF n < 0 THEN -n ELSE n
Min(m, n) == IF m < n THEN m ELSE n
Max(m, n) == IF m > n THEN m ELSE n

\* parseFloat((n/d).toFixed(2)), in hundredths: the nearest hundredth, the
\* larger in magnitude of two equally near ones.
ToFixed2(n, d) ==
  LET magnitude == (2 * Abs(n) + d) \div (2 * d)
  IN IF n < 0 THEN -magnitude ELSE magnitude

\* Math.floor(n / d) in the place of Math.round, for n >= 0.
MathRound_Floor(n, d) == n \div d

\* Math.round(n / d): the nearest integer, the larger of two equally near.
MathRound(n, d) == (2 * n + d) \div (2 * d)

\* getPccCategory with the lower bounds of the categories exclusive.
getPccCategory_Exclusive(pci) ==
  IF pci > 26 THEN "Very Clear"
  ELSE IF pci > 16 THEN "Clear"
  ELSE IF pci > 6 THEN "Moderate"
  ELSE "Slight"

getPccCategory(pci) ==
  IF pci >= 26 THEN "Very Clear"
  ELSE IF pci >= 16 THEN "Clear"
  ELSE IF pci >= 6 THEN "Moderate"
  ELSE "Slight"

(***************************************************************************)
(* computeCompositeDichotomyScores                                         *)
(***************************************************************************)
\* ScoredFacets looping over the facets of all dichotomies.
ScoredFacets_OfAllDichotomies(dichotomy, facetThetas) ==
  SelectSeq(ALL_FACETS, LAMBDA facet : facet \in DOMAIN facetThetas)

\* The facets of a dichotomy that have a theta, in configuration order.
ScoredFacets(dichotomy, facetThetas) ==
  SelectSeq(DICHOTOMY_CONFIG[dichotomy].facets,
            LAMBDA facet : facet \in DOMAIN facetThetas)

RECURSIVE SumThetas(_, _, _)
SumThetas(facets, i, facetThetas) ==
  IF i > Len(facets)
  THEN 0
  ELSE facetThetas[facets[i]] + SumThetas(facets, i + 1, facetThetas)

compositeThetaSum(dichotomy, facetThetas) ==
  SumThetas(ScoredFacets(dichotomy, facetThetas), 1, facetThetas)

\* facetCount that counts every facet of the configuration, with or
\* without a theta.
facetCount_OfConfiguredFacets(dichotomy, facetThetas) ==
  Len(DICHOTOMY_CONFIG[dichotomy].facets)

facetCount(dichotomy, facetThetas) ==
  Len(ScoredFacets(dichotomy, facetThetas))

\* compositeTheta = sum / count is compared with +-0.01, i.e. +-1 hundredth.
TieBand == 1

\* Preference with the poles taken in the other order.
Preference_PolesSwapped(config, sum, count) ==
  IF sum > TieBand * count THEN config.poles[2]
  ELSE IF sum < -TieBand * count THEN config.poles[1]
  ELSE config.tieBreaker

\* preference: the first pole above the band, the second below it, the
\* tie-breaker inside it.
Preference(config, sum, count) ==
  IF sum > TieBand * count THEN config.poles[1]
  ELSE IF sum < -TieBand * count THEN config.poles[2]
  ELSE config.tieBreaker

MaxTheta == 300

\* PreferenceClarityIndex without the lower limit Math.max(1, ...).
PreferenceClarityIndex_Unlimited(sum, count) ==
  MathRound(Min(Abs(sum), MaxTheta * count) * 30, MaxTheta * count)

\* (Math.min(Math.abs(compositeTheta), maxTheta) / maxTheta) * 30 as the
\* quotient of a numerator by 10 * count, then rounded, at least 1.
PreferenceClarityIndex(sum, count) ==
  LET clamped == Min(Abs(sum), MaxTheta * count)
  IN Max(1, MathRound(clamped * 30, MaxTheta * count))

DichotomyResult(dichotomy, facetThetas) ==
  LET config == DICHOTOMY_CONFIG[dichotomy]
      sum    == compositeThetaSum(dichotomy, facetThetas)
      count  == facetCount(dichotomy, facetThetas)
      pci    == PreferenceClarityIndex(sum, count)
  IN [preference    |-> Preference(config, sum, count),
      pci           |-> pci,
      pcc           |-> getPccCategory(pci),
      theta         |-> ToFixed2(sum, count),
      dichotomyName |-> dichotomy]

computeCompositeDichotomyScores(facetThetas) ==
  [dichotomy \in {d \in Range(DichotomyNames) : facetCount(d, facetThetas) # 0} |->
     DichotomyResult(dichotomy, facetThetas)]

\* Object.keys(dichotomyResults): the keys in the order in which the loop
\* over Object.entries(DICHOTOMY_CONFIG) inserts them.
dichotomyKeys(facetThetas) ==
  SelectSeq(DichotomyNames, LAMBDA dichotomy : facetCount(dichotomy, facetThetas) # 0)

(***************************************************************************)
(* calculateResults                                                        *)
(***************************************************************************)
\* FacetScoresFrom that gives a score only to the facets with an answered
\* question.
RECURSIVE FacetScoresFrom_AnsweredOnly(_, _)
FacetScoresFrom_AnsweredOnly(i, answs) ==
  IF i > Len(ALL_FACETS)
  THEN <<>>
  ELSE LET facet == ALL_FACETS[i]
       IN IF /\ facet \in DOMAIN facetToQuestionMap
             /\ AnsweredIndices(facetToQuestionMap[facet], answs) # <<>>
          THEN (facet :> ToFixed2(findBestThetaForFacet(facet, answs), 1))
                 @@ FacetScoresFrom_AnsweredOnly(i + 1, answs)
          ELSE FacetScoresFrom_AnsweredOnly(i + 1, answs)

\* ALL_FACETS.forEach(...): the scores of the facets from position i on.
RECURSIVE FacetScoresFrom(_, _)
FacetScoresFrom(i, answs) ==
  IF i > Len(ALL_FACETS)
  THEN <<>>
  ELSE LET facet == ALL_FACETS[i]
       IN IF facet \in DOMAIN facetToQuestionMap
          THEN (facet :> ToFixed2(findBestThetaForFacet(facet, answs), 1))
                 @@ FacetScoresFrom(i + 1, answs)
          ELSE FacetScoresFrom(i + 1, answs)

\* What a call gives when a TypeError leaves it instead of a result.
TypeError == [thrown |-> "TypeError"]

\* The reads of findBestThetaForFacet that throw a TypeError, for an answered
\* item of a facet that is scored: questionData.options[answer.choice].pole
\* when the question has no such option, and
\* DICHOTOMY_CONFIG[params.dichotomy].poles when the configuration has no
\* such dichotomy.  Nothing in the scorer catches the error.
ThrowsTypeError(answs) ==
  \E i \in 1..Len(ALL_FACETS) :
    /\ ALL_FACETS[i] \in DOMAIN facetToQuestionMap
    /\ \E qIndex \in Range(AnsweredIndices(facetToQuestionMap[ALL_FACETS[i]], answs)) :
         \/ Answer(answs, qIndex + 1) \notin DOMAIN questionsData[qIndex].options
         \/ itemParameters[qIndex + 1].dichotomy \notin DOMAIN DICHOTOMY_CONFIG

calculateResults(answs) ==
  IF ThrowsTypeError(answs)
  THEN TypeError
  ELSE LET facetScores == FacetScoresFrom(1, answs)
       IN [dichotomyResults |-> computeCompositeDichotomyScores(facetScores),
           facetScores      |-> facetScores]

(***************************************************************************)
(* The test runner (dummy.js): generated AnswerSets.                       *)
(***************************************************************************)
QuestionNumbers == 1..NumItems

\* generateDummyAnswers(questionsData, preferredTypeString, includeOmissions,
\* omissionRate): every question answered with the option of the preferred
\* pole, except the questions of omitted, which get null.  omitted is the
\* set of questions for which includeOmissions && Math.random() <
\* omissionRate comes out true: empty when includeOmissions is false, any
\* set of questions otherwise.
generateDummyAnswers(preferredTypeString, omitted) ==
  LET typePreferenceMap ==
        ("E-I" :> preferredTypeString[1]) @@ ("S-N" :> preferredTypeString[2]) @@
        ("T-F" :> preferredTypeString[3]) @@ ("J-P" :> preferredTypeString[4])
  IN [questionNumber \in QuestionNumbers |->
        LET q          == questionsData[questionNumber - 1]
            targetPole == typePreferenceMap[q.dichotomy]
        IN IF questionNumber \in omitted THEN Null
           ELSE IF q.options.A.pole = targetPole THEN "A"
           ELSE IF q.options.B.pole = targetPole THEN "B"
           ELSE "A"]

\* Test Case 6: every question omitted.
emptyAnswers == [questionNumber \in QuestionNumbers |-> Null]

\* showResults: answersForScorer has a key, the number of the question, for
\* the questions that have an answer and no key for the others.
answersForScorer(userAnswers) ==
  [questionNumber \in {number \in DOMAIN userAnswers : ~IsOmitted(userAnswers[number])}
     |-> userAnswers[questionNumber]]

\* The test cases of the runner that are generated from a type.
TestTypes == {<<"E", "S", "T", "J">>, <<"I", "N", "F", "P">>, <<"E", "N", "T", "P">>}

\* The sixteen types a preferredTypeString can name.
AllTypes ==
  {<<ei, sn, tf, jp>> :
     ei \in {"E", "I"}, sn \in {"S", "N"}, tf \in {"T", "F"}, jp \in {"J", "P"}}

\* Test Cases 1 to 3, without omissions, and Test Case 4, ESTJ with
\* omissions, for one outcome of the random draws.
TestCases ==
  {[preferredTypeString |-> preferredTypeString, omitted |-> {}] :
     preferredTypeString \in TestTypes}
    \cup {[preferredTypeString |-> <<"E", "S", "T", "J">>, omitted |-> {2}]}

\* answersForScorer as the quiz builds it from the recorded answers of one
\* respondent who answered every question.
SampleAnswers ==
  <<
     "A", "A", "B", "B", "B", "B", "B", "B", "A", "A", "A", "B",
     "B", "B", "B", "A", "A", "B", "B", "B", "B", "B", "B", "B",
     "A", "B", "A", "B", "A", "A", "B", "B", "B", "B", "B", "A",
     "B", "B", "A", "B", "B", "B", "A", "B", "A", "A", "B", "A",
     "B", "A", "B", "B", "A", "B", "B", "A", "A", "A", "A", "B",
     "A", "A", "A", "A", "B", "B", "A", "A", "A", "A", "A", "A",
     "B", "B", "B", "B", "A", "B", "B", "B", "A", "B", "B", "B",
     "B", "B", "B", "B", "B", "B", "B", "B", "A"
  >>

(***************************************************************************)
(* The state machine: AnswerSets are generated or revised, and scored.     *)
(***************************************************************************)
Last(s) == s[Len(s)]

\* The last call, without the calls before it.
LastCallOnly == IF calls = <<>> THEN <<>> ELSE <<Last(calls)>>

\* answers is the argument of the last call.
Scored == calls # <<>> /\ Last(calls).answers = answers

\* The AnswerSets of the test cases.
GeneratedAnswerSets ==
  {emptyAnswers, SampleAnswers}
    \cup {generateDummyAnswers(testCase.preferredTypeString, testCase.omitted) :
            testCase \in TestCases}

\* The questions that may be re-answered.
Pool == 1..PoolSize

\* The questions of a dichotomy, by number.
QuestionsOf(dichotomy) ==
  {questionNumber \in QuestionNumbers :
     questionsData[questionNumber - 1].dichotomy = dichotomy}

OtherChoice(choice) == IF choice = "A" THEN "B" ELSE "A"

\* The AnswerSet with every answer to a question of the dichotomy changed to
\* the other option of the question.
Flipped(answs, dichotomy) ==
  [questionNumber \in DOMAIN answs |->
     IF questionNumber \in QuestionsOf(dichotomy) /\ ~IsOmitted(answs[questionNumber])
     THEN OtherChoice(answs[questionNumber])
     ELSE answs[questionNumber]]

\* No question is rendered in the question container; no radio input of the
\* rendered question is checked.
NoQuestion == -1
NoOption == "none"

\* The quiz page as index.html delivers it, before its script has run: the
\* welcome screen is active, the start button is enabled and has no
\* listener.
PageLoading ==
  [page                     |-> "loading",
   fetch                    |-> "none",
   allQuestions             |-> <<>>,
   currentQuestionIndex     |-> 0,
   userAnswers              |-> <<>>,
   currentVerificationIndex |-> 0,
   bestFitType              |-> <<>>,
   screen                   |-> "welcome",
   startBtn                 |-> [disabled |-> FALSE, inDocument |-> TRUE],
   rendered                 |-> NoQuestion,
   checked                  |-> NoOption,
   thrown                   |-> FALSE]

\* No call of calculateResults is being followed step by step.
NoCall ==
  [pc |-> "idle", position |-> 0, theta |-> ThetaMin, bestTheta |-> 0,
   maxLogLikelihood |-> NegInfinity, iterations |-> 0, facetScores |-> <<>>]

\* The modules are loaded, the runner has fetched the question bank and
\* holds the AnswerSet of its last test case.
Init ==
  /\ itemParameters = itemParameterMatrix
  /\ DICHOTOMY_CONFIG = DICHOTOMY_CONFIG_Literal
  /\ facetToQuestionMap = buildFacetToQuestionMap(itemParameterMatrix)
  /\ questionsData = QuestionBank
  /\ answers = emptyAnswers
  /\ calls = <<>>
  /\ edits = 0
  /\ estimator = NoCall
  /\ quiz = PageLoading

\* A test case of the runner: an AnswerSet generated from a type.
GenerateDummy(preferredTypeString, omitted) ==
  /\ answers' = generateDummyAnswers(preferredTypeString, omitted)
  /\ calls' = <<>>
  /\ edits' = 0
  /\ UNCHANGED <<loaded, estimator, quiz>>

\* The generator is called for a type that has no test case; the AnswerSet
\* is scored as it is.
GenerateOther(preferredTypeString) ==
  /\ preferredTypeString \notin TestTypes
  /\ answers' = generateDummyAnswers(preferredTypeString, {})
  /\ calls' = <<>>
  /\ edits' = MaxEdits
  /\ UNCHANGED <<loaded, estimator, quiz>>

\* The answers of the respondent who answered every question.
LoadSample ==
  /\ answers' = SampleAnswers
  /\ calls' = <<>>
  /\ edits' = 0
  /\ UNCHANGED <<loaded, estimator, quiz>>

\* The respondent, having seen the results, changes the answer to one
\* question: another option, or no option.
SetAnswer(questionNumber, choice) ==
  /\ Scored
  /\ edits < MaxEdits
  /\ Answer(answers, questionNumber) # choice
  /\ answers' = [number \in DOMAIN answers \cup {questionNumber} |->
                   IF number = questionNumber THEN choice ELSE answers[number]]
  /\ calls' = LastCallOnly
  /\ edits' = edits + 1
  /\ UNCHANGED <<loaded, estimator, quiz>>

\* The respondent changes every answer given in one dichotomy to the other
\* option.
FlipDichotomy(dichotomy) ==
  /\ Scored
  /\ edits < MaxEdits
  /\ \E questionNumber \in QuestionsOf(dichotomy) :
       ~IsOmitted(Answer(answers, questionNumber))
  /\ answers' = Flipped(answers, dichotomy)
  /\ calls' = LastCallOnly
  /\ edits' = edits + 1
  /\ UNCHANGED <<loaded, estimator, quiz>>

\* The AnswerSet is handed over the way the quiz page hands it over: the
\* omitted questions have no key instead of the value null.
OmitUnanswered ==
  /\ Scored
  /\ edits < MaxEdits
  /\ \E questionNumber \in DOMAIN answers : answers[questionNumber] = Null
  /\ answers' = answersForScorer(answers)
  /\ calls' = LastCallOnly
  /\ edits' = edits + 1
  /\ UNCHANGED <<loaded, estimator, quiz>>

\* The runner runs the first test case of the recorded calls once more.
RunAgain ==
  /\ Scored
  /\ Len(calls) = 2
  /\ calls[1].answers \in GeneratedAnswerSets
  /\ answers' = calls[1].answers
  /\ edits' = 0
  /\ UNCHANGED calls
  /\ UNCHANGED <<loaded, estimator, quiz>>

\* Calculate in which the scorer drops the questions it skips as unanswered
\* from the arrays of facetToQuestionMap.
Calculate_PrunesUnanswered ==
  /\ ~Scored
  /\ calls' = Append(calls, [answers |-> answers, results |-> calculateResults(answers)])
  /\ facetToQuestionMap' =
       [facetName \in DOMAIN facetToQuestionMap |->
          AnsweredIndices(facetToQuestionMap[facetName], answers)]
  /\ UNCHANGED <<answers, edits, itemParameters, DICHOTOMY_CONFIG, questionsData, estimator, quiz>>

\* Calculate in which the scorer writes null into the AnswerSet for every
\* question it finds without a key.
Calculate_FillsMissingKeys ==
  /\ ~Scored
  /\ calls' = Append(calls, [answers |-> answers, results |-> calculateResults(answers)])
  /\ answers' = [questionNumber \in QuestionNumbers |->
                   IF questionNumber \in DOMAIN answers
                   THEN answers[questionNumber] ELSE Null]
  /\ UNCHANGED edits
  /\ UNCHANGED <<loaded, estimator, quiz>>

\* const results = calculateResults(testCase.answers, questionsData)
Calculate ==
  /\ ~Scored
  /\ calls' = Append(calls, [answers |-> answers, results |-> calculateResults(answers)])
  /\ UNCHANGED <<answers, edits>>
  /\ UNCHANGED <<loaded, estimator, quiz>>

Next ==
  \/ \E testCase \in TestCases :
       GenerateDummy(testCase.preferredTypeString, testCase.omitted)
  \/ \E preferredTypeString \in AllTypes : GenerateOther(preferredTypeString)
  \/ LoadSample
  \/ \E questionNumber \in Pool, choice \in Choices \cup {Null} :
       SetAnswer(questionNumber, choice)
  \/ \E dichotomy \in Range(DichotomyNames) : FlipDichotomy(dichotomy)
  \/ OmitUnanswered
  \/ RunAgain
  \/ Calculate

Spec == Init /\ [][Next]_vars

(***************************************************************************)
(* A caller that hands over entries the question bank does not define.     *)
(***************************************************************************)
\* Entries for a question number below 1 and above N, and for an option key
\* that no question has.
FaultyEntries ==
  {[questionNumber |-> 0, choice |-> "A"],
   [questionNumber |-> NumItems + 1, choice |-> "B"],
   [questionNumber |-> 2, choice |-> "C"]}

\* The caller adds an entry to the AnswerSet that was scored.
AddEntry(questionNumber, choice) ==
  /\ Scored
  /\ edits < MaxEdits
  /\ Answer(answers, questionNumber) # choice
  /\ answers' = [number \in DOMAIN answers \cup {questionNumber} |->
                   IF number = questionNumber THEN choice ELSE answers[number]]
  /\ calls' = LastCallOnly
  /\ edits' = edits + 1
  /\ UNCHANGED <<loaded, estimator, quiz>>

\* The item parameter table with the record of item qIndex replaced.
WithRecord(qIndex, record) ==
  [i \in 1..Len(itemParameterMatrix) |->
     IF i = qIndex + 1 THEN record ELSE itemParameterMatrix[i]]

\* Tables with one record that is not valid: a discrimination of 0, and a
\* dichotomy label that is none of the four.
InvalidTables ==
  {WithRecord(2, [itemParameterMatrix[3] EXCEPT !.a = 0]),
   WithRecord(2, [itemParameterMatrix[3] EXCEPT !.dichotomy = "I-E"])}

\* The modules are loaded with a table that holds a record that is not
\* valid; the question bank is the one of the valid table.
InitInvalidTable ==
  /\ itemParameters \in InvalidTables
  /\ DICHOTOMY_CONFIG = DICHOTOMY_CONFIG_Literal
  /\ facetToQuestionMap = buildFacetToQuestionMap(itemParameters)
  /\ questionsData = QuestionBank
  /\ answers = emptyAnswers
  /\ calls = <<>>
  /\ edits = 0
  /\ estimator = NoCall
  /\ quiz = PageLoading

SpecInvalidTable == InitInvalidTable /\ [][Next]_vars

NextFaultyCaller ==
  \/ Next
  \/ \E entry \in FaultyEntries : AddEntry(entry.questionNumber, entry.choice)

SpecFaultyCaller == Init /\ [][NextFaultyCaller]_vars

(***************************************************************************)
(* Shape of the state.                                                     *)
(***************************************************************************)
TypeOK ==
  /\ DOMAIN answers \subseteq QuestionNumbers
  /\ \A questionNumber \in DOMAIN answers : answers[questionNumber] \in Choices \cup {Null}
  /\ DOMAIN itemParameters = QuestionNumbers
  /\ DOMAIN facetToQuestionMap \subseteq Range(ALL_FACETS)
  /\ DOMAIN DICHOTOMY_CONFIG = Range(DichotomyNames)
  /\ DOMAIN questionsData = 0..(NumItems - 1)
  /\ edits \in 0..MaxEdits
  /\ Len(calls) <= 3
  /\ estimator.pc \in {"idle", "loop", "returned", "skipped", "done"}
  /\ estimator.position \in 0..Len(ALL_FACETS)
  /\ estimator.theta \in ThetaMin..(ThetaMax + ThetaStep)

(***************************************************************************)
(* One call of calculateResults(answers, questionsData) followed step by   *)
(* step: ALL_FACETS.forEach enters findBestThetaForFacet for each facet    *)
(* that has questions, the theta loop runs one iteration per step, and the *)
(* composite scores are computed when the last facet is done.  The entries *)
(* of answers are valid, so no step throws.                                *)
(***************************************************************************)
\* The facet ALL_FACETS.forEach is at.
CurrentFacet == ALL_FACETS[estimator.position]

\* The loop condition with < in the place of <=.
LoopContinues_Exclusive(theta) == theta < ThetaMax

\* theta <= 3.0
LoopContinues(theta) == theta <= ThetaMax

\* forEach is between two facets, and there is a next facet.
AtNextFacet ==
  /\ estimator.pc \in {"idle", "returned", "skipped"}
  /\ estimator.position < Len(ALL_FACETS)

\* if (facetToQuestionMap.has(facet)): findBestThetaForFacet is entered, and
\* its locals are initialised.
EnterFacet ==
  /\ AtNextFacet
  /\ ALL_FACETS[estimator.position + 1] \in DOMAIN facetToQuestionMap
  /\ Len(facetToQuestionMap[ALL_FACETS[estimator.position + 1]]) # 0
  /\ estimator' = [estimator EXCEPT !.pc = "loop",
                                    !.position = @ + 1,
                                    !.theta = ThetaMin,
                                    !.bestTheta = 0,
                                    !.maxLogLikelihood = NegInfinity,
                                    !.iterations = 0]
  /\ UNCHANGED <<loaded, answers, calls, edits, quiz>>

\* The facet has no entry in facetToQuestionMap: forEach passes over it.
SkipFacet ==
  /\ AtNextFacet
  /\ ALL_FACETS[estimator.position + 1] \notin DOMAIN facetToQuestionMap
  /\ estimator' = [estimator EXCEPT !.pc = "skipped", !.position = @ + 1]
  /\ UNCHANGED <<loaded, answers, calls, edits, quiz>>

\* One iteration of the theta loop.
LoopStep ==
  /\ estimator.pc = "loop"
  /\ LoopContinues(estimator.theta)
  /\ LET after == ThetaIteration(
                    ObservedResponses(facetToQuestionMap[CurrentFacet], answers),
                    [theta            |-> estimator.theta,
                     bestTheta        |-> estimator.bestTheta,
                     maxLogLikelihood |-> estimator.maxLogLikelihood])
     IN estimator' = [estimator EXCEPT !.theta = after.theta,
                                       !.bestTheta = after.bestTheta,
                                       !.maxLogLikelihood = after.maxLogLikelihood,
                                       !.iterations = @ + 1]
  /\ UNCHANGED <<loaded, answers, calls, edits, quiz>>

\* The loop is left: return bestTheta, and
\* facetScores[facet] = parseFloat(theta.toFixed(2)).
ReturnBest ==
  /\ estimator.pc = "loop"
  /\ ~LoopContinues(estimator.theta)
  /\ estimator' = [estimator EXCEPT
                     !.pc = "returned",
                     !.facetScores = (CurrentFacet :> ToFixed2(estimator.bestTheta, 1)) @@ @]
  /\ UNCHANGED <<loaded, answers, calls, edits, quiz>>

\* After the last facet: computeCompositeDichotomyScores, and the return.
ReturnResults ==
  /\ estimator.pc \in {"idle", "returned", "skipped"}
  /\ estimator.position = Len(ALL_FACETS)
  /\ calls' = Append(calls,
                     [answers |-> answers,
                      results |->
                        [dichotomyResults |->
                           computeCompositeDichotomyScores(estimator.facetScores),
                         facetScores |-> estimator.facetScores]])
  /\ estimator' = [estimator EXCEPT !.pc = "done"]
  /\ UNCHANGED <<loaded, answers, edits, quiz>>

\* The runner is about to score one of its test cases.
InitEstimator ==
  /\ itemParameters = itemParameterMatrix
  /\ DICHOTOMY_CONFIG = DICHOTOMY_CONFIG_Literal
  /\ facetToQuestionMap = buildFacetToQuestionMap(itemParameterMatrix)
  /\ questionsData = QuestionBank
  /\ answers \in GeneratedAnswerSets
  /\ calls = <<>>
  /\ edits = 0
  /\ estimator = NoCall
  /\ quiz = PageLoading

NextEstimator ==
  \/ EnterFacet
  \/ SkipFacet
  \/ LoopStep
  \/ ReturnBest
  \/ ReturnResults

SpecEstimator == InitEstimator /\ [][NextEstimator]_vars

(***************************************************************************)
(* The quiz page (main.js).  quiz holds the variables of the script        *)
(* (allQuestions, currentQuestionIndex, userAnswers, bestFitType,          *)
(* currentVerificationIndex), the state of the fetch of questions.json,    *)
(* and what the document shows: the active screen, the start button, the   *)
(* question rendered in the question container and its checked radio       *)
(* input.  reportedType is the dichotomyResults of the last entry of       *)
(* calls.  An answer object {questionIndex, choice} is held as its choice: *)
(* no code reads questionIndex.  Arrays are functions on 0..length-1.      *)
(* Every handler runs to completion before the next event is handled.      *)
(***************************************************************************)
DICHOTOMY_ORDER == <<"E-I", "S-N", "T-F", "J-P">>

\* array.length
ArrayLength(array) == Cardinality(DOMAIN array)

\* array[index] = value
Store(array, index, value) ==
  [i \in DOMAIN array \cup {index} |-> IF i = index THEN value ELSE array[i]]

\* The screen that is displayed is the one that has the class active; the
\* buttons of the other screens cannot be clicked.
Displayed(screenName) == quiz.screen = screenName

\* The questions for which the respondent checks an option.
CheckableIndices == (0..(QuizPoolSize - 1)) \cup {NumItems - 1}

\* The handler of DOMContentLoaded without startBtn.disabled = true.
onDOMContentLoaded_StartEnabled(q) ==
  [q EXCEPT !.page = "ready",
            !.fetch = "pending",
            !.allQuestions = <<>>,
            !.currentQuestionIndex = 0,
            !.userAnswers = <<>>,
            !.currentVerificationIndex = 0,
            !.bestFitType = <<>>]

\* The handler of DOMContentLoaded: the state is declared, the fetch is
\* started, the start button is disabled and the listeners are added.
onDOMContentLoaded(q) ==
  [q EXCEPT !.page = "ready",
            !.fetch = "pending",
            !.allQuestions = <<>>,
            !.currentQuestionIndex = 0,
            !.userAnswers = <<>>,
            !.currentVerificationIndex = 0,
            !.bestFitType = <<>>,
            !.startBtn.disabled = TRUE]

\* .then(data => ...): data.MBTI_Form_M is the question bank.
onQuestionsLoaded(q, data) ==
  [q EXCEPT !.fetch = "succeeded",
            !.allQuestions = data,
            !.userAnswers = [index \in DOMAIN data |-> Null],
            !.startBtn.disabled = FALSE]

\* .catch(error => ...): the content of the first container, the one of the
\* welcome screen, is replaced by the error text; the start button is no
\* longer in the document.
onQuestionsFailed(q) ==
  [q EXCEPT !.fetch = "failed",
            !.startBtn.inDocument = FALSE]

\* showQuestion: reading question.part throws when allQuestions has no
\* element at currentQuestionIndex; otherwise the question is rendered and
\* the radio input of the saved answer, if any, is checked.
showQuestion(q) ==
  IF q.currentQuestionIndex \notin DOMAIN q.allQuestions
  THEN [q EXCEPT !.thrown = TRUE]
  ELSE LET question    == q.allQuestions[q.currentQuestionIndex]
           savedAnswer == IF q.currentQuestionIndex \in DOMAIN q.userAnswers
                          THEN q.userAnswers[q.currentQuestionIndex]
                          ELSE Undefined
       IN [q EXCEPT !.rendered = q.currentQuestionIndex,
                    !.checked = IF ~IsOmitted(savedAnswer)
                                     /\ savedAnswer \in DOMAIN question.options
                                THEN savedAnswer
                                ELSE NoOption]

\* startQuiz: switchScreen is not reached when showQuestion throws.
startQuiz(q) ==
  LET shown == showQuestion([q EXCEPT !.currentQuestionIndex = 0])
  IN IF shown.thrown /\ ~q.thrown
     THEN shown
     ELSE [shown EXCEPT !.screen = "quiz"]

\* showResults with the keys of answersForScorer being the indices.
buildAnswersForScorer_KeyedByIndex(userAnswers) ==
  LET answered == {index \in DOMAIN userAnswers : ~IsOmitted(userAnswers[index])}
  IN [questionNumber \in answered |-> userAnswers[questionNumber]]

\* showResults: answersForScorer[index + 1] = answer for the elements of
\* userAnswers that are not null.
buildAnswersForScorer(userAnswers) ==
  LET answered == {index \in DOMAIN userAnswers : ~IsOmitted(userAnswers[index])}
  IN [questionNumber \in {index + 1 : index \in answered} |->
        userAnswers[questionNumber - 1]]

\* displayResults reads results[key].dichotomyName for the four keys.
CanDisplay(results) ==
  /\ results # TypeError
  /\ \A key \in Range(DICHOTOMY_ORDER) : key \in DOMAIN results.dichotomyResults

\* The first half of nextQuestion: the checked option, or null, is stored
\* and the index is incremented.
recordAnswer(q) ==
  [q EXCEPT !.userAnswers = Store(@, q.currentQuestionIndex,
                                  IF q.checked # NoOption THEN q.checked ELSE Null),
            !.currentQuestionIndex = @ + 1]

\* previousQuestion without the test currentQuestionIndex > 0.
previousQuestion_Unguarded(q) ==
  showQuestion([q EXCEPT !.currentQuestionIndex = @ - 1])

previousQuestion(q) ==
  IF q.currentQuestionIndex > 0
  THEN showQuestion([q EXCEPT !.currentQuestionIndex = @ - 1])
  ELSE q

\* clearCurrentSelection that only unchecks the radio input.
clearCurrentSelection_KeepsAnswer(q) ==
  [q EXCEPT !.checked = NoOption]

clearCurrentSelection(q) ==
  [q EXCEPT !.checked = NoOption,
            !.userAnswers = Store(@, q.currentQuestionIndex, Null)]

\* handleVerificationChoice
handleVerificationChoice(q, choice) ==
  LET dichotomyKey == DICHOTOMY_ORDER[q.currentVerificationIndex + 1]
      chosen == [q EXCEPT !.bestFitType = (dichotomyKey :> choice) @@ @,
                          !.currentVerificationIndex = @ + 1]
  IN IF chosen.currentVerificationIndex < Len(DICHOTOMY_ORDER)
     THEN chosen
     ELSE [chosen EXCEPT !.screen = "final"]

(***************************************************************************)
(* The events of the page.                                                 *)
(***************************************************************************)
\* The script runs: the handler of DOMContentLoaded.
DOMContentLoaded ==
  /\ quiz.page = "loading"
  /\ quiz' = onDOMContentLoaded(quiz)
  /\ UNCHANGED <<loaded, answers, calls, edits, estimator>>

\* The fetch of questions.json is answered with the question bank.
FetchSucceeds ==
  /\ quiz.fetch = "pending"
  /\ quiz' = onQuestionsLoaded(quiz, questionsData)
  /\ UNCHANGED <<loaded, answers, calls, edits, estimator>>

\* The fetch fails, or its response is not JSON.
FetchFails ==
  /\ quiz.fetch = "pending"
  /\ quiz' = onQuestionsFailed(quiz)
  /\ UNCHANGED <<loaded, answers, calls, edits, estimator>>

\* A click on the start button reaches startQuiz when the listener has been
\* added and the button is in the document, displayed and not disabled.
ClickStart ==
  /\ quiz.page = "ready"
  /\ Displayed("welcome")
  /\ quiz.startBtn.inDocument
  /\ ~quiz.startBtn.disabled
  /\ quiz' = startQuiz(quiz)
  /\ UNCHANGED <<loaded, answers, calls, edits, estimator>>

\* The respondent checks an option of the rendered question.
CheckOption(choice) ==
  /\ Displayed("quiz")
  /\ quiz.rendered \in CheckableIndices
  /\ choice \in DOMAIN quiz.allQuestions[quiz.rendered].options
  /\ quiz.checked # choice
  /\ quiz' = [quiz EXCEPT !.checked = choice]
  /\ UNCHANGED <<loaded, answers, calls, edits, estimator>>

\* nextQuestion: the answer is recorded; then the next question is shown,
\* or, after the last question, showResults builds answersForScorer, calls
\* calculateResults and switches to the results screen.
ClickNext ==
  /\ Displayed("quiz")
  /\ LET recorded == recordAnswer(quiz)
     IN IF recorded.currentQuestionIndex < ArrayLength(recorded.allQuestions)
        THEN /\ quiz' = showQuestion(recorded)
             /\ UNCHANGED <<answers, calls>>
        ELSE LET forScorer == buildAnswersForScorer(recorded.userAnswers)
                 results   == calculateResults(forScorer)
             IN /\ answers' = forScorer
                /\ calls' = Append(calls, [answers |-> forScorer, results |-> results])
                /\ quiz' = IF CanDisplay(results)
                           THEN [recorded EXCEPT !.screen = "results"]
                           ELSE [recorded EXCEPT !.thrown = TRUE]
  /\ UNCHANGED <<loaded, edits, estimator>>

\* previousQuestion
ClickPrevious ==
  /\ Displayed("quiz")
  /\ quiz' = previousQuestion(quiz)
  /\ UNCHANGED <<loaded, answers, calls, edits, estimator>>

\* clearCurrentSelection
ClickClear ==
  /\ Displayed("quiz")
  /\ quiz' = clearCurrentSelection(quiz)
  /\ UNCHANGED <<loaded, answers, calls, edits, estimator>>

\* startVerification
ClickVerify ==
  /\ Displayed("results")
  /\ quiz' = [quiz EXCEPT !.currentVerificationIndex = 0,
                          !.bestFitType = <<>>,
                          !.screen = "verification"]
  /\ UNCHANGED <<loaded, answers, calls, edits, estimator>>

\* A click on one of the two "This is me" buttons.
ClickVerifyChoice(choice) ==
  /\ Displayed("verification")
  /\ choice \in Range(DICHOTOMY_CONFIG[DICHOTOMY_ORDER[quiz.currentVerificationIndex + 1]].poles)
  /\ quiz' = handleVerificationChoice(quiz, choice)
  /\ UNCHANGED <<loaded, answers, calls, edits, estimator>>

\* location.reload(): the page is loaded again.
ClickRestart ==
  /\ Displayed("final")
  /\ quiz' = PageLoading
  /\ answers' = <<>>
  /\ calls' = <<>>
  /\ UNCHANGED <<loaded, edits, estimator>>

\* The page is opened; questions.json is the question bank.
InitQuiz ==
  /\ itemParameters = itemParameterMatrix
  /\ DICHOTOMY_CONFIG = DICHOTOMY_CONFIG_Literal
  /\ facetToQuestionMap = buildFacetToQuestionMap(itemParameterMatrix)
  /\ questionsData = QuestionBank
  /\ answers = <<>>
  /\ calls = <<>>
  /\ edits = 0
  /\ estimator = NoCall
  /\ quiz = PageLoading

NextQuiz ==
  \/ DOMContentLoaded
  \/ FetchSucceeds
  \/ FetchFails
  \/ ClickStart
  \/ \E choice \in Choices : CheckOption(choice)
  \/ ClickNext
  \/ ClickPrevious
  \/ ClickClear
  \/ ClickVerify
  \/ \E choice \in {"E", "I", "S", "N", "T", "F", "J", "P"} : ClickVerifyChoice(choice)
  \/ ClickRestart

SpecQuiz == InitQuiz /\ [][NextQuiz]_vars

(***************************************************************************)
(* Properties of the scoring results.  A call is an element of calls: the  *)
(* AnswerSet passed to calculateResults and the results it returned.       *)
(***************************************************************************)
Dichotomies == Range(DichotomyNames)

\* The questions of a dichotomy that have an answer in an AnswerSet.
AnsweredItems(answs, dichotomy) ==
  {questionNumber \in QuestionsOf(dichotomy) : ~IsOmitted(Answer(answs, questionNumber))}

\* The pole of the option chosen for an answered question.
ChosenPole(answs, questionNumber) ==
  QuestionBank[questionNumber - 1].options[Answer(answs, questionNumber)].pole

\* The composite theta of a dichotomy before rounding is UnroundedSum /
\* UnroundedCount: the sum of the facet scores of a call over the number of
\* facets of the dichotomy that have a score.
UnroundedSum(call, dichotomy) ==
  compositeThetaSum(dichotomy, call.results.facetScores)

UnroundedCount(call, dichotomy) ==
  facetCount(dichotomy, call.results.facetScores)

\* C1: whenever no item of a dichotomy has an answer, calculateResults
\* reports for it theta = 0, pci = 1, pcc = "Slight" and the tie-breaker of
\* the dichotomy as preference (so the empty AnswerSet gives I, N, F, P).
C1_UnansweredDichotomyIsTie ==
  \A i \in 1..Len(calls) : \A dichotomy \in Dichotomies :
    AnsweredItems(calls[i].answers, dichotomy) = {}
      => /\ dichotomy \in DOMAIN calls[i].results.dichotomyResults
         /\ LET result == calls[i].results.dichotomyResults[dichotomy]
            IN /\ result.theta = 0
               /\ result.pci = 1
               /\ result.pcc = "Slight"
               /\ result.preference = DICHOTOMY_CONFIG[dichotomy].tieBreaker

\* C2: in every result theta lies in [-3.00, 3.00] and pci is an integer in
\* 1..30, and every facet score lies in [-3.00, 3.00].
C2_ThetaAndPciInRange ==
  \A i \in 1..Len(calls) :
    LET results == calls[i].results
    IN /\ \A dichotomy \in DOMAIN results.dichotomyResults :
            /\ results.dichotomyResults[dichotomy].theta \in -300..300
            /\ results.dichotomyResults[dichotomy].pci \in 1..30
       /\ \A facet \in DOMAIN results.facetScores :
            results.facetScores[facet] \in -300..300

\* C2 witness: a scored AnswerSet with a facet score at an edge of the
\* theta range and a dichotomy whose composite theta is not 0 and so near 0
\* that only the lower limit of pci keeps pci at 1.
C2_Witness ==
  \E i \in 1..Len(calls) :
    /\ \E facet \in DOMAIN calls[i].results.facetScores :
         Abs(calls[i].results.facetScores[facet]) = 300
    /\ \E dichotomy \in Dichotomies :
         /\ calls[i].results.dichotomyResults[dichotomy].pci = 1
         /\ UnroundedSum(calls[i], dichotomy) # 0
         /\ 2 * Abs(UnroundedSum(calls[i], dichotomy))
             < 10 * UnroundedCount(calls[i], dichotomy)

\* C3: the preference is the first pole when the unrounded composite theta
\* is above 0 and the second pole when it is below 0; the tie-breaker
\* decides only when it is exactly 0.
C3_PreferenceFollowsSignOfTheta ==
  \A i \in 1..Len(calls) : \A dichotomy \in DOMAIN calls[i].results.dichotomyResults :
    LET result == calls[i].results.dichotomyResults[dichotomy]
        config == DICHOTOMY_CONFIG[dichotomy]
        sum    == UnroundedSum(calls[i], dichotomy)
    IN /\ sum > 0 => result.preference = config.poles[1]
       /\ sum < 0 => result.preference = config.poles[2]
       /\ sum = 0 => result.preference = config.tieBreaker

\* C4: when at least one E-I item is answered and every answered E-I item
\* has the option of pole E, whatever other E-I items are omitted, the E-I
\* result has preference "E" and theta > 0.
C4_AllPositiveAnswersGivePositivePole ==
  \A i \in 1..Len(calls) :
    LET answered == AnsweredItems(calls[i].answers, "E-I")
    IN (/\ answered # {}
        /\ \A questionNumber \in answered :
             ChosenPole(calls[i].answers, questionNumber) = "E")
         => /\ "E-I" \in DOMAIN calls[i].results.dichotomyResults
            /\ calls[i].results.dichotomyResults["E-I"].preference = "E"
            /\ calls[i].results.dichotomyResults["E-I"].theta > 0
            /\ UnroundedSum(calls[i], "E-I") > 0

(***************************************************************************)
(* Estimation: one estimate per dichotomy against one estimate per facet.  *)
(***************************************************************************)
\* The theta grid of the search.
ThetaGrid ==
  {ThetaMin + k * ThetaStep : k \in 0..((ThetaMax - ThetaMin) \div ThetaStep)}

\* The 0-based indices of the items of a dichotomy, in ascending order.
MemberIndices(dichotomy) ==
  SelectSeq(IndexSeq(NumItems),
            LAMBDA index : itemParameters[index + 1].dichotomy = dichotomy)

\* The facets of a dichotomy that have questions, in configuration order.
MappedFacets(dichotomy) ==
  SelectSeq(DICHOTOMY_CONFIG[dichotomy].facets,
            LAMBDA facet : facet \in DOMAIN facetToQuestionMap)

\* Every facet of the dichotomy that has questions has an answered one.
EveryFacetAnswered(answs, dichotomy) ==
  \A facet \in Range(MappedFacets(dichotomy)) :
    AnsweredIndices(facetToQuestionMap[facet], answs) # <<>>

\* The reference of C5: one maximum-likelihood estimate over all answered
\* items of the dichotomy taken together, 0 when there is none.  The
\* log-likelihood is concave in theta, so its maximiser on [-3, 3] lies less
\* than one grid step from the best grid point, which is what is computed.
PooledEstimate(answs, dichotomy) ==
  LET responses == ObservedResponses(MemberIndices(dichotomy), answs)
  IN IF responses = <<>>
     THEN 0
     ELSE ThetaLoop(responses,
                    [theta            |-> ThetaMin,
                     bestTheta        |-> 0,
                     maxLogLikelihood |-> NegInfinity],
                    ThetaMax).bestTheta

\* C5 (as claimed): the theta reported for a dichotomy is the single
\* maximum-likelihood estimate over all answered items of the dichotomy
\* pooled, up to the resolution of the estimate (one grid step).  Stated for
\* the dichotomies in which no facet is left without an answer.
C5_ThetaIsPooledEstimate ==
  \A i \in 1..Len(calls) : \A dichotomy \in DOMAIN calls[i].results.dichotomyResults :
    EveryFacetAnswered(calls[i].answers, dichotomy)
      => Abs(calls[i].results.dichotomyResults[dichotomy].theta
               - PooledEstimate(calls[i].answers, dichotomy)) <= ThetaStep

\* theta is a grid point at which the log-likelihood of the answered items
\* of the facet is at least that at every grid point.
IsGridMaximiser(facet, answs, theta) ==
  /\ theta \in ThetaGrid
  /\ LET responses == ObservedResponses(facetToQuestionMap[facet], answs)
         attained  == CurrentLogLikelihood(responses, 1, theta)
     IN \A other \in ThetaGrid :
          CurrentLogLikelihood(responses, 1, other) <= attained

\* The sum of the values of a function over a finite set of arguments.
RECURSIVE SumOver(_, _)
SumOver(arguments, values) ==
  IF arguments = {}
  THEN 0
  ELSE LET argument == CHOOSE a \in arguments : TRUE
       IN values[argument] + SumOver(arguments \ {argument}, values)

\* C5 (amended): every facet that has questions gets its own estimate, a
\* grid point of maximal likelihood over the answered items of the facet,
\* and the theta reported for a dichotomy is, to the nearest hundredth, the
\* arithmetic mean of the estimates of its facets that have questions.
C5_ThetaIsMeanOfFacetEstimates ==
  \A i \in 1..Len(calls) : \A dichotomy \in Dichotomies :
    LET results == calls[i].results
        facets  == Range(MappedFacets(dichotomy))
        count   == Cardinality(facets)
    IN /\ dichotomy \in DOMAIN results.dichotomyResults
       /\ \A facet \in facets :
            /\ facet \in DOMAIN results.facetScores
            /\ IsGridMaximiser(facet, calls[i].answers, results.facetScores[facet])
       /\ 2 * Abs(results.dichotomyResults[dichotomy].theta * count
                    - SumOver(facets, results.facetScores)) <= count

\* C5 witness: a scored dichotomy with every item answered whose facets got
\* different estimates strictly inside the grid, and whose theta is more
\* than a grid step away from the pooled estimate.
C5_Witness ==
  \E i \in 1..Len(calls) : \E dichotomy \in Dichotomies :
    /\ \A index \in Range(MemberIndices(dichotomy)) : ~IsOmitted(Answer(calls[i].answers, index + 1))
    /\ \E f1, f2 \in Range(MappedFacets(dichotomy)) :
         /\ calls[i].results.facetScores[f1] # calls[i].results.facetScores[f2]
         /\ Abs(calls[i].results.facetScores[f1]) < 300
         /\ Abs(calls[i].results.facetScores[f2]) < 300
    /\ Abs(calls[i].results.dichotomyResults[dichotomy].theta
             - PooledEstimate(calls[i].answers, dichotomy)) > ThetaStep

C7_PccIsCategoryOfPci ==
  /\ \A pci \in 1..30 :
       /\ getPccCategory(pci) = "Very Clear" <=> pci >= 26
       /\ getPccCategory(pci) = "Clear" <=> (16 <= pci /\ pci <= 25)
       /\ getPccCategory(pci) = "Moderate" <=> (6 <= pci /\ pci <= 15)
       /\ getPccCategory(pci) = "Slight" <=> pci <= 5
  /\ \A i \in 1..Len(calls) : \A dichotomy \in DOMAIN calls[i].results.dichotomyResults :
       LET result == calls[i].results.dichotomyResults[dichotomy]
       IN /\ result.pcc = "Very Clear" <=> result.pci >= 26
          /\ result.pcc = "Clear" <=> (16 <= result.pci /\ result.pci <= 25)
          /\ result.pcc = "Moderate" <=> (6 <= result.pci /\ result.pci <= 15)
          /\ result.pcc = "Slight" <=> result.pci <= 5

\* C7 witness: one scored AnswerSet whose results have pci 6, 16 and 26, the
\* lower ends of "Moderate", "Clear" and "Very Clear", and a result of
\* category "Slight".
C7_Witness ==
  \E i \in 1..Len(calls) :
    /\ \A boundary \in {6, 16, 26} : \E dichotomy \in Dichotomies :
         calls[i].results.dichotomyResults[dichotomy].pci = boundary
    /\ \E dichotomy \in Dichotomies :
         calls[i].results.dichotomyResults[dichotomy].pcc = "Slight"

(***************************************************************************)
(* Relations between two scorings.  When calls holds two calls, the second *)
(* scored the AnswerSet of the first after a revision.                     *)
(***************************************************************************)
\* The dichotomy of a question, from the item parameter table.
DichotomyOf(questionNumber) == itemParameters[questionNumber].dichotomy

\* The answers to questionNumber are options of opposite poles, the first
\* of the second pole of the dichotomy and the second of its first pole, and
\* the two AnswerSets are equal on every other question.
RaisesOneAnswer(lower, higher, questionNumber) ==
  /\ ~IsOmitted(Answer(lower, questionNumber))
  /\ ~IsOmitted(Answer(higher, questionNumber))
  /\ ChosenPole(lower, questionNumber)
       = DICHOTOMY_CONFIG[DichotomyOf(questionNumber)].poles[2]
  /\ ChosenPole(higher, questionNumber)
       = DICHOTOMY_CONFIG[DichotomyOf(questionNumber)].poles[1]
  /\ \A other \in QuestionNumbers \ {questionNumber} : Answer(lower, other) = Answer(higher, other)

\* C8: of two AnswerSets that answer the same items and differ in one item
\* of a dichotomy, answered with the negative-pole option in the first and
\* the positive-pole option in the second, the second gets a theta for the
\* dichotomy that is greater than or equal to that of the first.
C8_ThetaIsMonotone ==
  \A i, j \in 1..Len(calls) : \A questionNumber \in QuestionNumbers :
    RaisesOneAnswer(calls[i].answers, calls[j].answers, questionNumber)
      => LET dichotomy == DichotomyOf(questionNumber)
         IN /\ calls[j].results.dichotomyResults[dichotomy].theta
                 >= calls[i].results.dichotomyResults[dichotomy].theta
            /\ UnroundedSum(calls[j], dichotomy) >= UnroundedSum(calls[i], dichotomy)

\* C8 witness: two scored AnswerSets that differ in this way in one answer,
\* with a strictly greater theta for the second.
C8_Witness ==
  \E i, j \in 1..Len(calls) : \E questionNumber \in QuestionNumbers :
    /\ RaisesOneAnswer(calls[i].answers, calls[j].answers, questionNumber)
    /\ calls[j].results.dichotomyResults[DichotomyOf(questionNumber)].theta
         > calls[i].results.dichotomyResults[DichotomyOf(questionNumber)].theta

\* The other pole of the dichotomy.
OppositePole(dichotomy, pole) ==
  IF pole = DICHOTOMY_CONFIG[dichotomy].poles[1]
  THEN DICHOTOMY_CONFIG[dichotomy].poles[2]
  ELSE DICHOTOMY_CONFIG[dichotomy].poles[1]

\* The second call scored the AnswerSet of the first with every answer given
\* in the dichotomy changed to the other option.
ScoredFlipped(dichotomy) ==
  /\ Len(calls) = 2
  /\ AnsweredItems(calls[1].answers, dichotomy) # {}
  /\ calls[2].answers = Flipped(calls[1].answers, dichotomy)

SamePoleThroughout(answs, dichotomy) ==
  \A q1, q2 \in AnsweredItems(answs, dichotomy) :
    ChosenPole(answs, q1) = ChosenPole(answs, q2)

SameMemberAnswers(first, second, dichotomy) ==
  \A index \in Range(MemberIndices(dichotomy)) : Answer(first, index + 1) = Answer(second, index + 1)

\* C10: adding, removing or changing the answer to an item that is not a
\* member of a dichotomy leaves the whole result of the dichotomy (theta,
\* preference, pci, pcc) unchanged.
C10_OtherItemsDoNotMatter ==
  \A i, j \in 1..Len(calls) : \A dichotomy \in Dichotomies :
    SameMemberAnswers(calls[i].answers, calls[j].answers, dichotomy)
      => /\ dichotomy \in DOMAIN calls[i].results.dichotomyResults
         /\ dichotomy \in DOMAIN calls[j].results.dichotomyResults
         /\ calls[i].results.dichotomyResults[dichotomy]
              = calls[j].results.dichotomyResults[dichotomy]

\* C10 witness: two scored AnswerSets that differ in the answer to one
\* question only, with a different result for the dichotomy of the
\* question and the same results for the three others.
C10_Witness ==
  /\ Len(calls) = 2
  /\ \E questionNumber \in QuestionNumbers :
       /\ Answer(calls[1].answers, questionNumber) # Answer(calls[2].answers, questionNumber)
       /\ \A other \in QuestionNumbers \ {questionNumber} :
            Answer(calls[1].answers, other) = Answer(calls[2].answers, other)
       /\ calls[1].results.dichotomyResults[DichotomyOf(questionNumber)]
            # calls[2].results.dichotomyResults[DichotomyOf(questionNumber)]
       /\ \A dichotomy \in Dichotomies \ {DichotomyOf(questionNumber)} :
            calls[1].results.dichotomyResults[dichotomy]
              = calls[2].results.dichotomyResults[dichotomy]

(***************************************************************************)
(* Shape of the output.                                                    *)
(***************************************************************************)
\* C11: dichotomyResults has exactly the keys E-I, S-N, T-F, J-P, inserted
\* in this order; each maps to a result whose dichotomyName is the key and
\* whose preference is one of the two poles of the dichotomy.
C11_FourResultsInCanonicalOrder ==
  \A i \in 1..Len(calls) :
    LET results == calls[i].results
    IN /\ DOMAIN results.dichotomyResults = {"E-I", "S-N", "T-F", "J-P"}
       /\ dichotomyKeys(results.facetScores) = <<"E-I", "S-N", "T-F", "J-P">>
       /\ \A dichotomy \in DOMAIN results.dichotomyResults :
            /\ results.dichotomyResults[dichotomy].dichotomyName = dichotomy
            /\ results.dichotomyResults[dichotomy].preference
                 \in Range(DICHOTOMY_CONFIG[dichotomy].poles)

\* C11 witness: a scored AnswerSet without any answer in some dichotomy and
\* with an answer in another, all four results being there.
C11_Witness ==
  \E i \in 1..Len(calls) :
    /\ \E dichotomy \in Dichotomies : AnsweredItems(calls[i].answers, dichotomy) = {}
    /\ \E dichotomy \in Dichotomies : AnsweredItems(calls[i].answers, dichotomy) # {}
    /\ Cardinality(DOMAIN calls[i].results.dichotomyResults) = 4

C13_CallLeavesInputsUnchanged ==
  [][Len(calls') = Len(calls) + 1
       => /\ itemParameters' = itemParameters
          /\ facetToQuestionMap' = facetToQuestionMap
          /\ DICHOTOMY_CONFIG' = DICHOTOMY_CONFIG
          /\ questionsData' = questionsData
          /\ answers' = answers
          /\ Last(calls').answers = answers]_vars

\* C13 witness: after a call that had questions to skip and questions to
\* score, everything is as loaded and the AnswerSet is the one scored.
C13_Witness ==
  /\ Scored
  /\ \E questionNumber \in QuestionNumbers : IsOmitted(Answer(answers, questionNumber))
  /\ \E questionNumber \in QuestionNumbers : ~IsOmitted(Answer(answers, questionNumber))
  /\ itemParameters = itemParameterMatrix
  /\ facetToQuestionMap = buildFacetToQuestionMap(itemParameterMatrix)
  /\ DICHOTOMY_CONFIG = DICHOTOMY_CONFIG_Literal
  /\ questionsData = QuestionBank

(***************************************************************************)
(* Omitted questions.                                                      *)
(***************************************************************************)
\* Two AnswerSets give the same answers: every question has the same option
\* in both or is omitted in both, by a null or by a missing key.
SameGivenAnswers(first, second) ==
  \A questionNumber \in QuestionNumbers :
    \/ Answer(first, questionNumber) = Answer(second, questionNumber)
    \/ /\ IsOmitted(Answer(first, questionNumber))
       /\ IsOmitted(Answer(second, questionNumber))

\* C14: a question whose key is missing from the AnswerSet or whose value
\* is null is skipped: the call returns the four results, and two
\* AnswerSets that give the same answers and differ only in how they mark
\* the omitted questions get the same dichotomyResults and facetScores.
C14_OmissionsAreSkipped ==
  \A i, j \in 1..Len(calls) :
    SameGivenAnswers(calls[i].answers, calls[j].answers)
      => /\ Cardinality(DOMAIN calls[i].results.dichotomyResults) = 4
         /\ calls[i].results.dichotomyResults = calls[j].results.dichotomyResults
         /\ calls[i].results.facetScores = calls[j].results.facetScores

\* C14 witness: an AnswerSet with an answer and with a null was scored, and
\* then the same answers with the key of the omitted question missing.
C14_Witness ==
  \E i, j \in 1..Len(calls) : \E omitted, given \in QuestionNumbers :
    /\ calls[i].answers # calls[j].answers
    /\ SameGivenAnswers(calls[i].answers, calls[j].answers)
    /\ Answer(calls[i].answers, omitted) = Null
    /\ Answer(calls[j].answers, omitted) = Undefined
    /\ ~IsOmitted(Answer(calls[i].answers, given))

(***************************************************************************)
(* Entries and item records that are not valid.                            *)
(***************************************************************************)
\* The call ended with a result.
Returned(call) == call.results # TypeError

\* An entry for a question the bank does not have, or with an option key
\* the question does not have.
IsFaultyEntry(questionNumber, answer) ==
  /\ ~IsOmitted(answer)
  /\ \/ questionNumber \notin QuestionNumbers
     \/ answer \notin DOMAIN questionsData[questionNumber - 1].options

\* second is first with faulty entries added, under keys that first omits.
AddsFaultyEntries(first, second) ==
  \A questionNumber \in DOMAIN first \cup DOMAIN second :
    \/ Answer(first, questionNumber) = Answer(second, questionNumber)
    \/ /\ IsOmitted(Answer(first, questionNumber))
       /\ IsFaultyEntry(questionNumber, Answer(second, questionNumber))

\* C15 (as claimed): an entry for a question number outside 1..N or with an
\* option key that the question does not have never makes calculateResults
\* throw and is ignored: the AnswerSet with the entry gets the result of the
\* AnswerSet without it.
C15_FaultyEntriesAreIgnored ==
  \A i, j \in 1..Len(calls) :
    AddsFaultyEntries(calls[i].answers, calls[j].answers)
      => /\ Returned(calls[j])
         /\ calls[j].results = calls[i].results

\* A record that is not valid: a discrimination that is not positive, or a
\* dichotomy label that is none of the four.
IsInvalidRecord(params) ==
  \/ params.a <= 0
  \/ params.dichotomy \notin Range(DichotomyNames)

\* The items with an invalid record that the AnswerSet answers.
AnsweredInvalidItems(answs) ==
  {qIndex \in 0..(NumItems - 1) :
     /\ IsInvalidRecord(itemParameters[qIndex + 1])
     /\ ~IsOmitted(Answer(answs, qIndex + 1))}

\* C16 (as claimed): when the table holds an invalid record for an answered
\* item, calculateResults returns no results: it signals a failure.
C16_InvalidRecordIsSignalled ==
  \A i \in 1..Len(calls) :
    AnsweredInvalidItems(calls[i].answers) # {} => ~Returned(calls[i])

(***************************************************************************)
(* AnswerSets that answer every question for one type.                     *)
(***************************************************************************)
\* The letter of a type for a dichotomy.
TargetLetter(type, dichotomy) ==
  type[CHOOSE k \in 1..Len(DichotomyNames) : DichotomyNames[k] = dichotomy]

\* Every question is answered, with the option whose pole is the letter of
\* the type for the dichotomy of the question.
AnswersTarget(answs, type) ==
  \A questionNumber \in QuestionNumbers :
    /\ ~IsOmitted(Answer(answs, questionNumber))
    /\ ChosenPole(answs, questionNumber)
         = TargetLetter(type, QuestionBank[questionNumber - 1].dichotomy)

\* C17: for each of the sixteen types, an AnswerSet that answers every
\* question with the option of the type's pole gets, for each of the four
\* dichotomies, the letter of the type as preference.
C17_TargetTypeIsReported ==
  \A i \in 1..Len(calls) : \A type \in AllTypes :
    AnswersTarget(calls[i].answers, type)
      => \A dichotomy \in Dichotomies :
           calls[i].results.dichotomyResults[dichotomy].preference
             = TargetLetter(type, dichotomy)

\* C17 witness: such an AnswerSet was scored for a type that takes the
\* first pole in some dichotomies and the second in others, and that is
\* none of the types of the test cases.
C17_Witness ==
  \E i \in 1..Len(calls) : \E type \in AllTypes \ TestTypes :
    /\ AnswersTarget(calls[i].answers, type)
    /\ type[1] = "I"
    /\ type[3] = "T"
    /\ \A dichotomy \in Dichotomies :
         calls[i].results.dichotomyResults[dichotomy].preference
           = TargetLetter(type, dichotomy)

(***************************************************************************)
(* The work of one call.                                                   *)
(***************************************************************************)
\* The number of grid points of the theta loop.
GridPoints == ((ThetaMax - ThetaMin) \div ThetaStep) + 1

FacetLogLikelihood(facet, answs, theta) ==
  CurrentLogLikelihood(ObservedResponses(facetToQuestionMap[facet], answs), 1, theta)

C20_CompositeIsMeanOverMappedFacets ==
  \A i \in 1..Len(calls) : \A dichotomy \in Dichotomies :
    LET results == calls[i].results
        config  == DICHOTOMY_CONFIG[dichotomy]
        facets  == {facet \in Range(config.facets) : facet \in DOMAIN facetToQuestionMap}
        sum     == SumOver(facets, results.facetScores)
        count   == Cardinality(facets)
        scaled  == Min(Abs(sum), MaxTheta * count) * 30
        result  == results.dichotomyResults[dichotomy]
    IN /\ Range(config.facets) \cap DOMAIN results.facetScores = facets
       /\ count > 0
       /\ sum > count => result.preference = config.poles[1]
       /\ sum < -count => result.preference = config.poles[2]
       /\ (-count <= sum /\ sum <= count) => result.preference = config.tieBreaker
       /\ \E rounded \in 0..30 :
            /\ 2 * rounded * MaxTheta * count <= 2 * scaled + MaxTheta * count
            /\ 2 * scaled + MaxTheta * count < 2 * (rounded + 1) * MaxTheta * count
            /\ result.pci = Max(1, rounded)
       /\ 2 * Abs(result.theta * count - sum) <= count

\* C20 witness: a scored dichotomy that has facets without mapped questions
\* and facets with different scores, whose mean is not a whole number of
\* hundredths.
C20_Witness ==
  \E i \in 1..Len(calls) : \E dichotomy \in Dichotomies :
    LET results == calls[i].results
        config  == DICHOTOMY_CONFIG[dichotomy]
        facets  == {facet \in Range(config.facets) : facet \in DOMAIN facetToQuestionMap}
    IN /\ Cardinality(facets) < Len(config.facets)
       /\ \E f1, f2 \in facets : results.facetScores[f1] # results.facetScores[f2]
       /\ SumOver(facets, results.facetScores) % Cardinality(facets) # 0

(***************************************************************************)
(* The observed response of an answered item.                              *)
(***************************************************************************)
\* The answered questions of an AnswerSet, by number.
AnsweredQuestions(answs) ==
  {questionNumber \in QuestionNumbers : ~IsOmitted(Answer(answs, questionNumber))}

ItemIndices == {i - 1 : i \in DOMAIN itemParameters}

\* The dichotomies whose composite theta averages the theta of a facet that
\* item qIndex is mapped to.
ContributesTo(qIndex) ==
  {dichotomy \in DOMAIN DICHOTOMY_CONFIG :
     \E facet \in Range(DICHOTOMY_CONFIG[dichotomy].facets) :
       /\ facet \in DOMAIN facetToQuestionMap
       /\ qIndex \in Range(facetToQuestionMap[facet])}

\* C22: the item parameter table has exactly the keys 0..92; every item has
\* one of the four dichotomies and a > 0; every item's primaryFacet is a
\* facet configured for the item's dichotomy; and every item contributes to
\* the theta of its own dichotomy and of no other.
C22_ItemTableIsWellFormed ==
  /\ ItemIndices = 0..92
  /\ \A qIndex \in ItemIndices :
       LET params == itemParameters[qIndex + 1]
       IN /\ params.dichotomy \in {"E-I", "S-N", "T-F", "J-P"}
          /\ params.a > 0
          /\ params.primaryFacet \in Range(DICHOTOMY_CONFIG[params.dichotomy].facets)
          /\ ContributesTo(qIndex) = {params.dichotomy}

\* C22 witness: a call has scored answers to items of the table whose
\* primaryFacet is a positive-pole facet and to items whose primaryFacet is
\* a negative-pole facet, in each of the four dichotomies.
C22_Witness ==
  \E i \in 1..Len(calls) :
    /\ Returned(calls[i])
    /\ \A dichotomy \in Dichotomies :
         \A facets \in {POSITIVE_POLE_FACETS[dichotomy], NEGATIVE_POLE_FACETS[dichotomy]} :
           \E qIndex \in ItemIndices :
             /\ itemParameters[qIndex + 1].dichotomy = dichotomy
             /\ itemParameters[qIndex + 1].primaryFacet \in Range(facets)
             /\ ~IsOmitted(Answer(calls[i].answers, qIndex + 1))
             /\ ContributesTo(qIndex) = {dichotomy}

(***************************************************************************)
(* The preference clarity index.                                           *)
(***************************************************************************)
\* The least integer that is at least n / d, for n >= 0 and d > 0.
Ceiling(n, d) == (n + d - 1) \div d

\* |theta| / maxTheta * 30 rounded up to a positive integer, for the
\* composite theta sum / count in hundredths.
RoundedUpIndex(sum, count) ==
  Max(1, Ceiling(Min(Abs(sum), MaxTheta * count) * 30, MaxTheta * count))

\* C23: in every DichotomyResult, pci is |theta| / maxTheta * 30 rounded up
\* to the nearest positive integer, theta being the composite theta of the
\* dichotomy.
C23_PciIsRoundedUp ==
  \A i \in 1..Len(calls) :
    Returned(calls[i]) =>
      \A dichotomy \in DOMAIN calls[i].results.dichotomyResults :
        calls[i].results.dichotomyResults[dichotomy].pci
          = RoundedUpIndex(UnroundedSum(calls[i], dichotomy),
                           UnroundedCount(calls[i], dichotomy))

\* The calls that C23 fails for report the nearest integer below the ratio:
\* the ratio has a fraction under one half and is at least one half.
C23_RoundedDown ==
  \E i \in 1..Len(calls) :
    /\ Returned(calls[i])
    /\ \E dichotomy \in DOMAIN calls[i].results.dichotomyResults :
         LET sum   == UnroundedSum(calls[i], dichotomy)
             count == UnroundedCount(calls[i], dichotomy)
             pci   == calls[i].results.dichotomyResults[dichotomy].pci
         IN /\ pci = RoundedUpIndex(sum, count) - 1
            /\ pci >= 1
            /\ pci * MaxTheta * count < Abs(sum) * 30

(***************************************************************************)
(* Agreement of the fields of a DichotomyResult.                           *)
(***************************************************************************)
\* The comparison of the composite theta with the band selected the
\* tie-breaker.
TieBreakerApplied(call, dichotomy) ==
  Abs(UnroundedSum(call, dichotomy)) <= TieBand * UnroundedCount(call, dichotomy)

\* C24: in every DichotomyResult, a reported theta above 0 comes with the
\* first pole as preference and a reported theta below 0 with the second
\* pole, and the tie-breaker is applied only with a reported theta of 0.
C24_ReportedFieldsAgree ==
  \A i \in 1..Len(calls) :
    Returned(calls[i]) =>
      \A dichotomy \in DOMAIN calls[i].results.dichotomyResults :
        LET result == calls[i].results.dichotomyResults[dichotomy]
            config == DICHOTOMY_CONFIG[dichotomy]
        IN /\ result.theta > 0 => result.preference = config.poles[1]
           /\ result.theta < 0 => result.preference = config.poles[2]
           /\ TieBreakerApplied(calls[i], dichotomy) => result.theta = 0

\* The calls that C24 fails for: a result reports a theta of 0.01 and the
\* tie-breaker, the second pole, as preference.
C24_PositiveThetaWithSecondPole ==
  \E i \in 1..Len(calls) :
    /\ Returned(calls[i])
    /\ \E dichotomy \in DOMAIN calls[i].results.dichotomyResults :
         LET result == calls[i].results.dichotomyResults[dichotomy]
         IN /\ result.theta = 1
            /\ TieBreakerApplied(calls[i], dichotomy)
            /\ result.preference = DICHOTOMY_CONFIG[dichotomy].poles[2]

(***************************************************************************)
(* The quiz page.                                                          *)
(***************************************************************************)
\* N, the number of questions the page holds.
NumQuestions == ArrayLength(quiz.allQuestions)

\* The page has not shown a question and shows none.
QuizNotStarted ==
  /\ quiz.screen = "welcome"
  /\ quiz.rendered = NoQuestion
  /\ ~quiz.thrown

\* C25: once the handler of DOMContentLoaded has run, the start button is
\* disabled until the fetch of the question bank has succeeded; startQuiz
\* and showQuestion have not run while allQuestions is empty (no question
\* is rendered, no screen but the welcome screen is active and nothing has
\* thrown); and after a failed fetch the quiz is not started.
C25_StartOnlyAfterQuestionsLoaded ==
  /\ (quiz.page = "ready" /\ quiz.fetch # "succeeded") => quiz.startBtn.disabled
  /\ NumQuestions = 0 => QuizNotStarted
  /\ quiz.fetch = "failed" => (QuizNotStarted /\ NumQuestions = 0)
  /\ ~quiz.thrown

\* C25 witness: the quiz was started after the fetch succeeded, and the
\* first question is rendered.
C25_Witness ==
  /\ quiz.fetch = "succeeded"
  /\ ~quiz.startBtn.disabled
  /\ quiz.screen = "quiz"
  /\ quiz.rendered = 0
  /\ NumQuestions = NumItems

\* The value nextQuestion stores for the checked radio input.
CheckedAnswer == IF quiz.checked # NoOption THEN quiz.checked ELSE Null

\* C26: a step taken on the quiz screen at question i changes no element of
\* userAnswers but element i; a step back (Previous) changes none; a step
\* forward (Next) stores in element i the option that is checked, or null
\* when none is; a step that unchecks the checked option (Clear selection)
\* stores null in element i; any other step at question i leaves element i
\* as it is or null.
C26_AnswersFollowNextAndClear ==
  [][quiz.screen = "quiz" =>
       LET i == quiz.currentQuestionIndex
       IN /\ DOMAIN quiz'.userAnswers = DOMAIN quiz.userAnswers
          /\ \A j \in DOMAIN quiz.userAnswers \ {i} :
               quiz'.userAnswers[j] = quiz.userAnswers[j]
          /\ quiz'.currentQuestionIndex = i - 1 => quiz'.userAnswers = quiz.userAnswers
          /\ quiz'.currentQuestionIndex = i + 1 => quiz'.userAnswers[i] = CheckedAnswer
          /\ quiz'.currentQuestionIndex = i =>
               /\ quiz'.userAnswers[i] \in {quiz.userAnswers[i], Null}
               /\ (quiz.checked # NoOption /\ quiz'.checked = NoOption)
                    => quiz'.userAnswers[i] = Null]_vars

\* C26 witness: the first two questions were answered with Next, and
\* Previous has led back to the first question, whose saved option is
\* checked again.
C26_Witness ==
  /\ quiz.screen = "quiz"
  /\ quiz.currentQuestionIndex = 0
  /\ quiz.userAnswers[0] = "A"
  /\ quiz.userAnswers[1] = "B"
  /\ quiz.checked = "A"

\* C27: calculateResults is called only by a step that Next takes on the
\* last question (index N - 1), and the AnswerSet it is given has exactly
\* the keys index + 1 of the elements of userAnswers that are not null, each
\* with the answer of that element.
C27_ScoredOnlyAfterLastQuestion ==
  [][Len(calls') > Len(calls) =>
       /\ quiz.screen = "quiz"
       /\ quiz.currentQuestionIndex = NumQuestions - 1
       /\ quiz'.currentQuestionIndex = NumQuestions
       /\ quiz'.userAnswers[NumQuestions - 1] = CheckedAnswer
       /\ LET given == Last(calls').answers
          IN /\ DOMAIN given = {index + 1 : index \in
                                  {k \in DOMAIN quiz'.userAnswers :
                                     quiz'.userAnswers[k] # Null}}
             /\ \A questionNumber \in DOMAIN given :
                  given[questionNumber] = quiz'.userAnswers[questionNumber - 1]]_vars

\* C27 witness: the results are shown for a call whose AnswerSet has the
\* first and the last question and not the second.
C27_Witness ==
  /\ quiz.screen = "results"
  /\ calls # <<>>
  /\ DOMAIN Last(calls).answers = {1, NumItems}
  /\ quiz.userAnswers[0] # Null
  /\ quiz.userAnswers[1] = Null
  /\ Returned(Last(calls))

\* C28: currentQuestionIndex is in 0..N; the question rendered, if any, has
\* an index in 0..N-1, and on the quiz screen it is the question of
\* currentQuestionIndex; and once the questions are loaded the index is N
\* exactly when the quiz screen has been left for the results.
C28_IndexStaysInRange ==
  /\ quiz.currentQuestionIndex \in 0..NumQuestions
  /\ quiz.rendered # NoQuestion => quiz.rendered \in 0..(NumQuestions - 1)
  /\ quiz.screen = "quiz" =>
       /\ quiz.rendered = quiz.currentQuestionIndex
       /\ quiz.currentQuestionIndex < NumQuestions
  /\ (NumQuestions > 0 /\ quiz.currentQuestionIndex = NumQuestions)
       <=> quiz.screen \in {"results", "verification", "final"}

\* C28 witness: Next on the last question has led to the results screen
\* with the index at N.
C28_Witness ==
  /\ quiz.screen = "results"
  /\ quiz.currentQuestionIndex = NumItems
  /\ quiz.rendered = NumItems - 1
  /\ calls # <<>>
=============================================================================
